---- MODULE Spec2Model ----
(***************************************************************************)
(* vNCRCC: the P-56 intrusion tracker (src/vncrcc/p56_history.py), the     *)
(* detector that feeds it (src/vncrcc/precompute.py and the on-demand      *)
(* path of src/vncrcc/api/v1/p56.py) and the fetch callback that drives    *)
(* them (src/vncrcc/app.py).                                               *)
(*                                                                         *)
(* Time is in whole seconds.  A Python value that may be None is a         *)
(* sequence of length 0 (None) or 1 (the value); timestamps stored in the  *)
(* history use NoTs for "key absent", which is falsy like None.            *)
(* Positions are points of a line; a P-56 zone is a closed interval of it. *)
(***************************************************************************)
EXTENDS Integers, Sequences, FiniteSets, TLC

VARIABLES
    clock,      \* wall clock, time.time()
    snaps,      \* Snapshot Store: the newest snapshots, newest first
    pending,    \* precomputes scheduled by _on_fetch and not yet started (their ts)
    job,        \* the running detector call: its position and its local data
    events,     \* p56_history.json: "events"
    current,    \* p56_history.json: "current_inside"
    incidents,  \* Snapshot Store: the incident log
    cache,      \* precompute._CACHE["p56"]
    last,       \* history variable: what the last step did
    ran,        \* history variable: fetched_at of the latest snapshot of the last completed detector call
    run,        \* history variable: per id, the outside snapshots processed since a segment-cross event
    pool,       \* the executor's threads: the precompute_all call each one is running
    rc,         \* precompute._CACHE: the Read Cache, key -> entry
    store,      \* Snapshot Store: the rows of the snapshots table
    ever,       \* history variable: every row save_snapshot has inserted
    hist,       \* aircraft_history.json: "history", cid -> ring of points
    rbase,      \* precompute._TRIM_RADIUS_NM
    got,        \* what the last read of the Snapshot Store returned
    adm,        \* the admin purge endpoint: the configured password, the last request and its response
    fetcher,    \* the VatsimClient and its poll loop
    backend,    \* which Storage class the storage module provides
    reply,      \* what the last call of purge_events returned
    registry    \* geo.loader: the shapes loaded from the polygon files

\* the variables of the P-56 tracker and of the pipeline around it
aux == <<pool, rc, store, ever, hist, rbase, got, adm, fetcher, backend, reply, registry>>

vars == <<clock, snaps, pending, job, events, current, incidents, cache, last, ran, run,
          pool, rc, store, ever, hist, rbase, got, adm, fetcher, backend, reply, registry>>

-----------------------------------------------------------------------------
(* Bounds of the model *)

MaxClock == 120         \* Spec: no fetch after this time
MaxClockSeq == 60       \* SpecSeq: no fetch after this time
MaxPending == 2         \* Spec: precomputes that may wait to start
MaxIncidents == 2       \* Spec: no on-demand computation once the log holds this many rows
MaxClockCap == 1015     \* SpecCap: no fetch after this time
MaxClockConc == 60      \* SpecConc: no fetch after this time
CapVaried == 10         \* SpecCap: until this time fetches may be 1 s apart and precomputes may wait
PoolSize == 2           \* SpecConc: threads of the executor that may run precompute_all

(* Program constants *)

DEDUPE_WINDOW_SECONDS == 60
ALT_CEILING == 17999
EXIT_CONFIRM == 10
MAX_POSITIONS == 200
MIN_SPACING == 1
TRIM_RADIUS_NM == 300
SURGE_COUNT == 500
SURGE_RADIUS_NM == 80
BUSY_COUNT == 300
BUSY_RADIUS_NM == 150
DCA_BULL == 2
NoTs == 0

None == <<>>
Some(v) == <<v>>

Min(a, b) == IF a <= b THEN a ELSE b
Max(a, b) == IF a >= b THEN a ELSE b

-----------------------------------------------------------------------------
(* Geometry: the P-56 features, in load order, and shapely's predicates *)

Zones == << [name |-> "P-56A", lo |-> 1, hi |-> 3],
            [name |-> "P-56B", lo |-> 5, hi |-> 6] >>

ZoneIdx == 1..Len(Zones)

\* shp.contains(pt): the point is in the interior
ShpContains(z, p) == z.lo < p /\ p < z.hi

\* shp.intersects(pt): the point is in the interior or on the boundary
ShpIntersects(z, p) == z.lo <= p /\ p <= z.hi

\* shp.intersects(LineString([p, q]))
ShpIntersectsLine(z, p, q) == Min(p, q) <= z.hi /\ Max(p, q) >= z.lo

\* the names of a list of features, in load order
RECURSIVE NamesOf(_)
NamesOf(s) == IF s = <<>> THEN <<>> ELSE <<Head(s).name>> \o NamesOf(Tail(s))

-----------------------------------------------------------------------------
(* Aircraft observations *)

\* a.get("altitude") or a.get("alt"): the feed has no "alt" key, and 0 is falsy
AltOf(a) == IF a.altitude = None \/ a.altitude = Some(0) THEN None ELSE a.altitude

\* alt_val is None or alt_val > 17999: continue
AltOk(a) == AltOf(a) # None /\ AltOf(a)[1] <= ALT_CEILING

\* point_from_aircraft
point_from_aircraft(a) == a.pos

\* str(a.get("cid") or a.get("callsign") or "")
Ident(a) == IF a.cid # None THEN a.cid[1] ELSE a.callsign

\* str(e.get("cid")) of a stored event
StrCid(e) == IF e.cid = None THEN "None" ELSE e.cid[1]

-----------------------------------------------------------------------------
(* The aircraft of the feed: one pilot with a CID, one known by callsign only *)

Fleet == << [callsign |-> "AAL1", cid |-> Some("1001")],
            [callsign |-> "N2",   cid |-> None] >>

Idents == {Ident(Fleet[i]) : i \in 1..Len(Fleet)}

\* the last element of a non-empty set of indices
Last(S) == CHOOSE i \in S : \A j \in S : j <= i

-----------------------------------------------------------------------------
(* _detect_p56_intrusions: the detection of one (prev, latest) pair *)

\* prev_map: ident -> position of the eligible observations of prev
prev_map(prev_ac) ==
    [id \in Idents |->
        LET idx == {i \in 1..Len(prev_ac) :
                      /\ Ident(prev_ac[i]) = id
                      /\ point_from_aircraft(prev_ac[i]) # None
                      /\ AltOk(prev_ac[i])}
        IN  IF idx = {} THEN None ELSE prev_ac[Last(idx)].pos]

\* the zones the latest point is in or on
latest_inside(lp) == NamesOf(SelectSeq(Zones, LAMBDA z : ShpContains(z, lp) \/ ShpIntersects(z, lp)))

\* prev_inside: the pipeline tests contains, the on-demand path contains or intersects
prev_inside(pp, closed) ==
    \E i \in ZoneIdx : ShpContains(Zones[i], pp) \/ (closed /\ ShpIntersects(Zones[i], pp))

\* matched_zones of one eligible aircraft of latest
matched_zones(pm, a, closed) ==
    LET pp == pm[Ident(a)]
        lp == point_from_aircraft(a)[1]
        crossed == IF pp # None
                   THEN NamesOf(SelectSeq(Zones, LAMBDA z : ShpIntersectsLine(z, pp[1], lp)))
                   ELSE <<>>
    IN  IF crossed # <<>> THEN crossed
        ELSE IF latest_inside(lp) = <<>> THEN <<>>
        ELSE IF pp # None /\ prev_inside(pp[1], closed) THEN <<>>
        ELSE latest_inside(lp)

\* the aircraft of latest the loop does not skip
Eligible(a) == point_from_aircraft(a) # None /\ AltOk(a)

\* the event handed to record_penetration, which is also the breach reported
DetectionOf(a, zones, latest_ts) ==
    [cid |-> a.cid, identifier |-> Ident(a), callsign |-> a.callsign,
     latest_ts |-> latest_ts, zones |-> zones]

RECURSIVE DetectFrom(_, _, _, _, _)
DetectFrom(pm, latest_ac, latest_ts, closed, i) ==
    IF i > Len(latest_ac) THEN <<>>
    ELSE LET a == latest_ac[i]
             z == IF Eligible(a) THEN matched_zones(pm, a, closed) ELSE <<>>
         IN  (IF z # <<>> THEN <<DetectionOf(a, z, latest_ts)>> ELSE <<>>)
             \o DetectFrom(pm, latest_ac, latest_ts, closed, i + 1)

\* the detections of the pair, in the order of latest's aircraft list
Detections(prev_ac, latest_ac, latest_ts, closed) ==
    DetectFrom(prev_map(prev_ac), latest_ac, latest_ts, closed, 1)

-----------------------------------------------------------------------------
(* p56_history.py: the history file, {events, current_inside} *)

\* the index of the most recent event of cid, 0 when there is none
LastEventIdx(ev, cid) ==
    LET idx == {i \in 1..Len(ev) : StrCid(ev[i]) = cid}
    IN  IF idx = {} THEN 0 ELSE Last(idx)

\* a tracker that counts the detection itself as an outside snapshot (sensitivity of C3)
FreshStateCounted(e, recorded_at) ==
    [inside |-> TRUE, p56_buster |-> TRUE, outside_count |-> 1,
     last_seen |-> IF e.latest_ts # NoTs THEN e.latest_ts ELSE recorded_at]

\* the summary record_penetration stores in current_inside
FreshState(e, recorded_at) ==
    [inside |-> TRUE, p56_buster |-> TRUE, outside_count |-> 0,
     last_seen |-> IF e.latest_ts # NoTs THEN e.latest_ts ELSE recorded_at]

\* event_copy, as appended to the event list
NewEvent(e, recorded_at) ==
    [cid |-> e.cid, identifier |-> e.identifier, callsign |-> e.callsign,
     zones |-> e.zones, recorded_at |-> recorded_at, latest_ts |-> e.latest_ts,
     intrusion_positions |-> <<>>,
     exit_detected_at |-> NoTs, exit_confirmed_at |-> NoTs]

\* the merge of a detection into the last event: only latest_ts may change
MergedEvent(old, e) ==
    [old EXCEPT !.latest_ts = IF old.latest_ts = NoTs \/ e.latest_ts > old.latest_ts
                              THEN e.latest_ts ELSE old.latest_ts]

\* a tracker that never drops a detection (sensitivity of C4)
NeverInside(cur, cid) == FALSE

\* a tracker whose dedupe window excludes its end (sensitivity of C6)
InDedupeWindowStrict(now, recorded_at) == now - recorded_at < DEDUPE_WINDOW_SECONDS

\* current.get(cid, {}).get("inside"): the detection is dropped
AlreadyInside(cur, cid) == cur[cid] # None /\ cur[cid][1].inside

\* time.time() - last_ts <= DEDUPE_WINDOW_SECONDS
InDedupeWindow(now, recorded_at) == now - recorded_at <= DEDUPE_WINDOW_SECONDS

\* record_penetration(event) at wall time now: the new file and what was done
record_penetration(ev, cur, e, now) ==
    LET cid == IF e.cid # None THEN e.cid[1] ELSE e.identifier
        li == LastEventIdx(ev, cid)
    IN  IF AlreadyInside(cur, cid)
        THEN [events |-> ev, current |-> cur, outcome |-> "suppressed"]
        ELSE IF li # 0 /\ InDedupeWindow(now, ev[li].recorded_at)
        THEN [events |-> [ev EXCEPT ![li] = MergedEvent(ev[li], e)],
              current |-> [cur EXCEPT ![cid] = Some(FreshState(e, now))],
              outcome |-> "merged"]
        ELSE [events |-> Append(ev, NewEvent(e, now)),
              current |-> [cur EXCEPT ![cid] = Some(FreshState(e, now))],
              outcome |-> "created"]

\* ac_map: only the aircraft that have a cid are in it
ac_map(aircraft_list) ==
    [id \in Idents |->
        LET idx == {i \in 1..Len(aircraft_list) :
                      aircraft_list[i].cid # None /\ aircraft_list[i].cid[1] = id}
        IN  IF idx = {} THEN None ELSE Some(aircraft_list[Last(idx)])]

\* currently_inside of an aircraft found in ac_map
currently_inside(a) ==
    /\ point_from_aircraft(a) # None
    /\ \E i \in ZoneIdx : \/ ShpContains(Zones[i], point_from_aircraft(a)[1])
                           \/ ShpIntersects(Zones[i], point_from_aircraft(a)[1])

\* the last MAX_POSITIONS points of the track
Capped(p) ==
    IF Len(p) > MAX_POSITIONS THEN SubSeq(p, Len(p) - MAX_POSITIONS + 1, Len(p)) ELSE p

\* a tracker that appends whatever the spacing (sensitivity of C10)
AppendAlways(p, ts) == Capped(Append(p, [ts |-> ts]))

\* the track after the position of this sync has been offered to it
AppendPosition(p, ts) ==
    IF p = <<>> \/ p[Len(p)].ts < ts - MIN_SPACING
    THEN Capped(Append(p, [ts |-> ts]))
    ELSE p

\* a tracker that waits for one more outside snapshot (sensitivity of C2)
ExitConfirmedLate(oc) == oc > EXIT_CONFIRM

\* state["outside_count"] >= 10
ExitConfirmed(oc) == oc >= EXIT_CONFIRM

\* a tracker that skips no key of current_inside (sensitivity of C38)
SkippedNever(state) == FALSE

\* the key is skipped: its exit has been confirmed
Skipped(state) == ~state.p56_buster

\* the loop body of sync_snapshot for one key of current_inside
SyncOne(ev, cur, cid, am, ts) ==
    LET state == cur[cid][1]
        li == LastEventIdx(ev, cid)
        a == am[cid]
        oc == state.outside_count + 1
    IN  IF Skipped(state) THEN [events |-> ev, current |-> cur]
        ELSE IF li = 0
        THEN [events |-> ev,
              current |-> [cur EXCEPT ![cid] = Some([state EXCEPT !.p56_buster = FALSE])]]
        ELSE IF a # None
        THEN LET tracked == IF point_from_aircraft(a[1]) # None
                            THEN [ev[li] EXCEPT !.intrusion_positions =
                                      AppendPosition(ev[li].intrusion_positions, ts)]
                            ELSE ev[li]
             IN  IF currently_inside(a[1])
                 THEN [events |-> [ev EXCEPT ![li] = tracked],
                       current |-> [cur EXCEPT ![cid] =
                           Some([state EXCEPT !.inside = TRUE, !.last_seen = ts,
                                              !.outside_count = 0])]]
                 ELSE [events |-> [ev EXCEPT ![li] =
                           IF ExitConfirmed(oc)
                           THEN [tracked EXCEPT
                                   !.exit_confirmed_at = ts,
                                   !.exit_detected_at =
                                       IF tracked.exit_detected_at = NoTs
                                       THEN ts ELSE tracked.exit_detected_at]
                           ELSE tracked],
                       current |-> [cur EXCEPT ![cid] =
                           Some([state EXCEPT !.inside = FALSE, !.last_seen = ts,
                                              !.outside_count = oc,
                                              !.p56_buster = ~ExitConfirmed(oc)])]]
        ELSE [events |-> [ev EXCEPT ![li] =
                  IF ExitConfirmed(oc) /\ ev[li].exit_confirmed_at = NoTs
                  THEN [ev[li] EXCEPT !.exit_confirmed_at = ts]
                  ELSE ev[li]],
              current |-> [cur EXCEPT ![cid] =
                  Some([state EXCEPT !.outside_count = oc,
                                     !.p56_buster = ~ExitConfirmed(oc)])]]

\* the keys of current_inside, in the order the loop visits them
IdentOrder == <<"1001", "N2">>

RECURSIVE SyncFrom(_, _, _, _, _)
SyncFrom(ev, cur, am, ts, i) ==
    IF i > Len(IdentOrder) THEN [events |-> ev, current |-> cur]
    ELSE IF cur[IdentOrder[i]] = None THEN SyncFrom(ev, cur, am, ts, i + 1)
    ELSE LET r == SyncOne(ev, cur, IdentOrder[i], am, ts)
         IN  SyncFrom(r.events, r.current, am, ts, i + 1)

\* sync_snapshot(aircraft_list, features, ts): the new file
sync_snapshot(ev, cur, aircraft_list, ts) ==
    SyncFrom(ev, cur, ac_map(aircraft_list), ts, 1)

-----------------------------------------------------------------------------
(* The inputs the feed is drawn from *)

\* the observations of one aircraft of the fleet
ObsOf(f, positions, altitudes) ==
    {[callsign |-> f.callsign, cid |-> f.cid, pos |-> p, altitude |-> h] :
        p \in positions, h \in altitudes}

\* the pilot lists with at most the one aircraft f
ListsOf(f, positions, altitudes) ==
    {<<>>} \cup {<<o>> : o \in ObsOf(f, positions, altitudes)}

PosMain == {Some(0), Some(2), Some(4)}
AltMain == {Some(ALT_CEILING), Some(ALT_CEILING + 1)}
ListsMain == ListsOf(Fleet[1], PosMain, AltMain)
DtMain == {20}

-----------------------------------------------------------------------------
(* The state machine *)

IdleJob == [pc |-> "idle", kind |-> "", ts |-> NoTs, prev_ac |-> <<>>, latest_ac |-> <<>>,
            latest_ts |-> NoTs, queue |-> <<>>, breaches |-> <<>>,
            created |-> {}, base |-> None]

NoOp == [op |-> "init", id |-> "", outcome |-> ""]
Op(name) == [op |-> name, id |-> "", outcome |-> ""]

NoRun == 0 - 1

\* the keys precompute_all publishes
Keys == {"system_status", "sfra", "frz", "p56", "aircraft_list"}

\* the threads of the executor
Workers == 1..PoolSize

\* a thread that runs no precompute_all
IdleThread == [pc |-> "idle", ts |-> NoTs, data |-> <<>>, queue |-> <<>>, breaches |-> <<>>,
               latest_ac |-> <<>>, latest_ts |-> NoTs, loaded |-> None, lost |-> {}]

\* the admin endpoint at startup: VNCRCC_ADMIN_PASSWORD not set, no request served
NoAdmin == [pwd |-> None, req |-> None, resp |-> None]

\* VatsimClient.__init__, with the default poll interval; times in half seconds
DEFAULT_INTERVAL == 15
NewFetcher ==
    [interval |-> 2 * DEFAULT_INTERVAL, latest |-> None, latest_ts |-> None, upstream |-> None,
     offset |-> 2, resync |-> 0, pc |-> "fetch", slept |-> None,
     now |-> 0, polls |-> 0, calls |-> 0]

\* the pipeline around the tracker at startup: nothing cached, stored or tracked
AuxInit ==
    /\ pool = [w \in Workers |-> IdleThread]
    /\ rc = [k \in Keys |-> None]
    /\ store = <<>>
    /\ ever = {}
    /\ hist = [id \in Idents |-> <<>>]
    /\ rbase = TRIM_RADIUS_NM
    /\ got = <<>>
    /\ adm = NoAdmin
    /\ fetcher = NewFetcher
    /\ backend = "sqlalchemy"
    /\ reply = None
    /\ registry = <<>>

\* the tracker at startup: no snapshot, an empty history file
TrackerInit ==
    /\ clock = 0
    /\ snaps = <<>>
    /\ pending = <<>>
    /\ job = IdleJob
    /\ events = <<>>
    /\ current = [id \in Idents |-> None]
    /\ incidents = <<>>
    /\ cache = None
    /\ last = NoOp
    /\ ran = NoTs
    /\ run = [id \in Idents |-> NoRun]

Init == TrackerInit /\ AuxInit

\* get_latest_snapshots(2) after save_snapshot(data, ts)
Saved(data, ts) ==
    SubSeq(<<[fetched_at |-> ts, ac |-> data]>> \o snaps, 1, Min(2, Len(snaps) + 1))

\* _on_fetch(data, ts): save the snapshot, schedule the precompute
Fetch(lists, dts, maxClock, maxPending) ==
    \E data \in lists, dt \in dts :
        /\ clock + dt <= maxClock
        /\ Len(pending) < maxPending
        /\ clock' = clock + dt
        /\ snaps' = Saved(data, clock')
        /\ pending' = Append(pending, clock')
        /\ last' = Op("fetch")
        /\ UNCHANGED <<job, events, current, incidents, cache, ran, run>>
        /\ UNCHANGED aux

\* the detector call reads the two newest snapshots and detects
StartedJob(kind, ts, closed) ==
    LET d == Detections(snaps[2].ac, snaps[1].ac, snaps[1].fetched_at, closed)
    IN  [pc |-> "run", kind |-> kind, ts |-> ts,
         prev_ac |-> snaps[2].ac, latest_ac |-> snaps[1].ac,
         latest_ts |-> snaps[1].fetched_at, queue |-> d, breaches |-> d,
         created |-> {},
         base |-> IF ran = snaps[1].fetched_at
                  THEN Some([events |-> events, current |-> current]) ELSE None]

\* precompute_all(data, ts) reaches _detect_p56_intrusions
PrecomputeStart ==
    /\ job.pc = "idle"
    /\ pending # <<>>
    /\ pending' = Tail(pending)
    /\ IF Len(snaps) < 2
       THEN /\ cache' = Some([aircraft |-> <<>>, computed_at |-> Head(pending)])
            /\ job' = job
       ELSE /\ job' = StartedJob("pipeline", Head(pending), FALSE)
            /\ cache' = cache
    /\ last' = Op("start")
    /\ UNCHANGED <<clock, snaps, events, current, incidents, ran, run>>
    /\ UNCHANGED aux

\* GET /p56/ while nothing is cached: the on-demand computation
ApiStart ==
    /\ job.pc = "idle"
    /\ cache = None
    /\ Len(snaps) >= 2
    /\ Len(incidents) < MaxIncidents
    /\ job' = StartedJob("api", NoTs, TRUE)
    /\ last' = Op("start")
    /\ UNCHANGED <<clock, snaps, pending, events, current, incidents, cache, ran, run>>
    /\ UNCHANGED aux

\* the incident row save_incident appends
IncidentRow(e) == [detected_at |-> e.latest_ts, cid |-> e.cid, zone |-> e.zones]

\* one detection of the loop: (save_incident and) record_penetration
Record ==
    /\ job.pc = "run"
    /\ job.queue # <<>>
    /\ LET e == Head(job.queue)
           r == record_penetration(events, current, e, clock)
       IN  /\ events' = r.events
           /\ current' = r.current
           /\ incidents' = IF job.kind = "api"
                            THEN Append(incidents, IncidentRow(e)) ELSE incidents
           /\ last' = [op |-> "record", id |-> e.identifier, outcome |-> r.outcome]
           /\ job' = [job EXCEPT !.queue = Tail(job.queue),
                                 !.created = IF r.outcome = "created"
                                             THEN job.created \cup {e.identifier}
                                             ELSE job.created]
    /\ UNCHANGED <<clock, snaps, pending, cache, ran, run>>
    /\ UNCHANGED aux

\* the position of id in an aircraft list, None when it has none there
PosIn(ac, id) ==
    LET idx == {i \in 1..Len(ac) : Ident(ac[i]) = id /\ ac[i].pos # None}
    IN  IF idx = {} THEN None ELSE ac[Last(idx)].pos

OutsideAll(p) == \A i \in ZoneIdx : ~ShpIntersects(Zones[i], p)

\* run, after the detector call j has completed
RunAfter(j, id) ==
    LET pp == PosIn(j.prev_ac, id)
        lp == PosIn(j.latest_ac, id)
        out == lp # None /\ OutsideAll(lp[1])
        detected == \E i \in 1..Len(j.breaches) : j.breaches[i].identifier = id
    IN  IF id \in j.created /\ out /\ pp # None /\ OutsideAll(pp[1]) THEN 0
        ELSE IF run[id] # NoRun /\ out /\ ~detected /\ j.base = None THEN run[id] + 1
        ELSE NoRun

\* the end of the detector call: sync_snapshot, and the result is cached
Sync ==
    /\ job.pc = "run"
    /\ job.queue = <<>>
    /\ LET r == sync_snapshot(events, current, job.latest_ac, job.latest_ts)
       IN  /\ events' = r.events
           /\ current' = r.current
    /\ cache' = IF job.kind = "pipeline"
                 THEN Some([aircraft |-> job.breaches, computed_at |-> job.ts])
                 ELSE cache
    /\ job' = IdleJob
    /\ last' = Op("sync")
    /\ ran' = job.latest_ts
    /\ run' = [id \in Idents |-> RunAfter(job, id)]
    /\ UNCHANGED <<clock, snaps, pending, incidents>>
    /\ UNCHANGED aux

Next ==
    \/ Fetch(ListsMain, DtMain, MaxClock, MaxPending)
    \/ PrecomputeStart
    \/ ApiStart
    \/ Record
    \/ Sync

Spec == Init /\ [][Next]_vars

-----------------------------------------------------------------------------
(* precompute_all, step by step: every read and write of shared state is a step *)

\* the distance of a position from the DCA bullseye, _dca_radial_range(...)["range_nm"]
range_nm(p) == IF p >= DCA_BULL THEN p - DCA_BULL ELSE DCA_BULL - p

\* tiers that begin at their thresholds (sensitivity of C19)
effective_radius_from(total, R) ==
    IF total >= SURGE_COUNT THEN Min(R, SURGE_RADIUS_NM)
    ELSE IF total >= BUSY_COUNT THEN Min(R, BUSY_RADIUS_NM)
    ELSE R

\* effective_radius for the upstream aircraft count
effective_radius(total, R) ==
    IF total > SURGE_COUNT THEN Min(R, SURGE_RADIUS_NM)
    ELSE IF total > BUSY_COUNT THEN Min(R, BUSY_RADIUS_NM)
    ELSE R

\* the aircraft list trimmed to the effective radius
Trimmed(aircraft, eff) ==
    IF aircraft # <<>> /\ eff > 0
    THEN SelectSeq(aircraft, LAMBDA a : a.pos # None /\ range_nm(a.pos[1]) <= eff)
    ELSE aircraft

\* _CACHE["system_status"]
system_status(total, processed, R, ts) ==
    [total_aircraft_vatsim |-> total, processed_aircraft |-> processed,
     configured_radius_nm |-> R, effective_radius_nm |-> effective_radius(total, R),
     surge_mode |-> effective_radius(total, R) < R, computed_at |-> ts]

\* the SFRA and the FRZ, around the bullseye
SfraZones == << [name |-> "SFRA", lo |-> DCA_BULL - 30, hi |-> DCA_BULL + 30] >>
FrzZones == << [name |-> "FRZ", lo |-> DCA_BULL - 15, hi |-> DCA_BULL + 15] >>

\* _compute_geofence(aircraft, keyword, max_altitude=17999): the aircraft matched
compute_geofence(aircraft, shapes) ==
    SelectSeq(aircraft, LAMBDA a :
        /\ point_from_aircraft(a) # None
        /\ AltOk(a)
        /\ \E i \in 1..Len(shapes) : ShpIntersects(shapes[i], point_from_aircraft(a)[1]))

\* an entry of the Read Cache
Entry(val, ts) == Some([computed_at |-> ts, val |-> val])

\* the thread w moves to pc, with the fields of t
Moved(w, t, pc) == [pool EXCEPT ![w] = [t EXCEPT !.pc = pc]]

\* the free thread the executor hands the next call to
FreeThread == CHOOSE w \in Workers : pool[w].pc = "idle" /\ \A v \in Workers : pool[v].pc = "idle" => w <= v

\* _on_fetch(data, ts): save the snapshot; the task created runs precompute_all in a thread
FetchConc(lists, dts, maxClock) ==
    \E data \in lists, dt \in dts :
        /\ clock + dt <= maxClock
        /\ \E w \in Workers : pool[w].pc = "idle"
        /\ clock' = clock + dt
        /\ snaps' = Saved(data, clock')
        /\ pool' = [pool EXCEPT ![FreeThread] =
                       [IdleThread EXCEPT !.pc = "status", !.ts = clock', !.data = data]]
        /\ last' = Op("fetch")
        /\ UNCHANGED <<pending, job, events, current, incidents, cache, ran, run>>
        /\ UNCHANGED <<rc, store, ever, hist, rbase, got, adm, fetcher, backend, reply, registry>>

\* what a step of a thread leaves alone, the history file and the Read Cache apart
ThreadFrame == UNCHANGED <<clock, snaps, pending, job, incidents, cache, ran, run,
                           store, ever, hist, rbase, got, adm, fetcher, backend, reply, registry>>

\* the aircraft precompute_all processes
Processed(t) == Trimmed(t.data, effective_radius(Len(t.data), rbase))

\* _CACHE["system_status"] = {...}
T_Status(w) ==
    LET t == pool[w]
    IN  /\ t.pc = "status"
        /\ rc' = [rc EXCEPT !["system_status"] =
                     Entry(system_status(Len(t.data), Len(Processed(t)), rbase, t.ts), t.ts)]
        /\ pool' = Moved(w, t, "sfra")
        /\ last' = Op("publish")
        /\ UNCHANGED <<events, current>>
        /\ ThreadFrame

\* _CACHE["sfra"] = {...}
T_Sfra(w) ==
    LET t == pool[w]
    IN  /\ t.pc = "sfra"
        /\ rc' = [rc EXCEPT !["sfra"] = Entry(compute_geofence(Processed(t), SfraZones), t.ts)]
        /\ pool' = Moved(w, t, "frz")
        /\ last' = Op("publish")
        /\ UNCHANGED <<events, current>>
        /\ ThreadFrame

\* _CACHE["frz"] = {...}
T_Frz(w) ==
    LET t == pool[w]
    IN  /\ t.pc = "frz"
        /\ rc' = [rc EXCEPT !["frz"] = Entry(compute_geofence(Processed(t), FrzZones), t.ts)]
        /\ pool' = Moved(w, t, "detect")
        /\ last' = Op("publish")
        /\ UNCHANGED <<events, current>>
        /\ ThreadFrame

\* _detect_p56_intrusions: read the two newest snapshots and detect
T_Detect(w) ==
    LET t == pool[w]
        d == Detections(snaps[2].ac, snaps[1].ac, snaps[1].fetched_at, FALSE)
    IN  /\ t.pc = "detect"
        /\ pool' = IF Len(snaps) < 2 THEN Moved(w, t, "p56")
                   ELSE Moved(w, [t EXCEPT !.queue = d, !.breaches = d,
                                           !.latest_ac = snaps[1].ac,
                                           !.latest_ts = snaps[1].fetched_at],
                              IF d = <<>> THEN "syncload" ELSE "recload")
        /\ last' = Op("detect")
        /\ UNCHANGED <<events, current, rc>>
        /\ ThreadFrame

\* data = _load(), in record_penetration or in sync_snapshot
T_Load(w) ==
    LET t == pool[w]
    IN  /\ t.pc \in {"recload", "syncload"}
        /\ pool' = Moved(w, [t EXCEPT !.loaded = Some([events |-> events, current |-> current,
                                                        now |-> clock])],
                         IF t.pc = "recload" THEN "recwrite" ELSE "syncwrite")
        /\ last' = Op("load")
        /\ UNCHANGED <<events, current, rc>>
        /\ ThreadFrame

\* record_penetration on the loaded file: _atomic_write(data) unless it returned early
T_RecWrite(w) ==
    LET t == pool[w]
        d == t.loaded[1]
        r == record_penetration(d.events, d.current, Head(t.queue), d.now)
    IN  /\ t.pc = "recwrite"
        /\ IF r.outcome = "suppressed"
           THEN UNCHANGED <<events, current>>
           ELSE events' = r.events /\ current' = r.current
        /\ pool' = Moved(w, [t EXCEPT !.queue = Tail(t.queue), !.loaded = None, !.lost = {}],
                         IF Tail(t.queue) = <<>> THEN "syncload" ELSE "recload")
        /\ last' = [op |-> "write", id |-> Head(t.queue).identifier, outcome |-> r.outcome]
        /\ UNCHANGED rc
        /\ ThreadFrame

\* sync_snapshot on the loaded file: _atomic_write(data)
T_SyncWrite(w) ==
    LET t == pool[w]
        d == t.loaded[1]
        r == sync_snapshot(d.events, d.current, t.latest_ac, t.latest_ts)
    IN  /\ t.pc = "syncwrite"
        /\ events' = r.events
        /\ current' = r.current
        /\ pool' = Moved(w, [t EXCEPT !.loaded = None, !.lost = {}], "p56")
        /\ last' = [op |-> "write", id |-> "", outcome |-> "synced"]
        /\ UNCHANGED rc
        /\ ThreadFrame

\* _CACHE["p56"] = {...}
T_P56(w) ==
    LET t == pool[w]
    IN  /\ t.pc = "p56"
        /\ rc' = [rc EXCEPT !["p56"] = Entry(t.breaches, t.ts)]
        /\ pool' = Moved(w, t, "aircraft_list")
        /\ last' = Op("publish")
        /\ UNCHANGED <<events, current>>
        /\ ThreadFrame

\* _CACHE["aircraft_list"] = {...}, and precompute_all returns
T_AircraftList(w) ==
    LET t == pool[w]
    IN  /\ t.pc = "aircraft_list"
        /\ rc' = [rc EXCEPT !["aircraft_list"] = Entry(Processed(t), t.ts)]
        /\ pool' = [pool EXCEPT ![w] = IdleThread]
        /\ last' = Op("publish")
        /\ UNCHANGED <<events, current>>
        /\ ThreadFrame

\* the events of a file, as a set
EventSet(ev) == {ev[i] : i \in 1..Len(ev)}

\* clear_history(): the file is overwritten with an empty structure
ClearHistory ==
    /\ events # <<>>
    /\ events' = <<>>
    /\ current' = [id \in Idents |-> None]
    /\ pool' = [w \in Workers |->
                   IF pool[w].loaded # None
                   THEN [pool[w] EXCEPT !.lost = pool[w].lost \cup EventSet(events)]
                   ELSE pool[w]]
    /\ last' = Op("clear")
    /\ UNCHANGED rc
    /\ ThreadFrame

ListsConc == {<<o>> : o \in ObsOf(Fleet[1], {Some(0), Some(2)}, {Some(ALT_CEILING)})}
DtConc == {20}

NextConc ==
    \/ FetchConc(ListsConc, DtConc, MaxClockConc)
    \/ \E w \in Workers :
          \/ T_Status(w)
          \/ T_Sfra(w)
          \/ T_Frz(w)
          \/ T_Detect(w)
          \/ T_Load(w)
          \/ T_RecWrite(w)
          \/ T_SyncWrite(w)
          \/ T_P56(w)
          \/ T_AircraftList(w)
    \/ ClearHistory

SpecConc == Init /\ [][NextConc]_vars

(* The pipeline in its normal course: each precompute completes before the next *)
(* fetch, 5 s apart; the aircraft, when present, is under the ceiling.           *)

ListsSeq == ListsOf(Fleet[1], PosMain, {Some(ALT_CEILING)})
DtSeq == {5}

FetchSeq == job.pc = "idle" /\ Fetch(ListsSeq, DtSeq, MaxClockSeq, 1)

NextSeq ==
    \/ FetchSeq
    \/ PrecomputeStart
    \/ Record
    \/ Sync

SpecSeq == Init /\ [][NextSeq]_vars

(* A loiter: the aircraft stays inside P-56A long enough to fill its track.  At  *)
(* first fetches are 1 s or 5 s apart and a precompute may wait for the next     *)
(* fetch; from CapVaried on the pipeline is in its normal course.                *)

ListsCap == {<<o>> : o \in ObsOf(Fleet[1], {Some(2)}, {Some(ALT_CEILING)})}

FetchCap ==
    IF clock < CapVaried
    THEN Fetch(ListsCap, {1, 5}, MaxClockCap, 2)
    ELSE job.pc = "idle" /\ Fetch(ListsCap, {5}, MaxClockCap, 1)

NextCap ==
    \/ FetchCap
    \/ PrecomputeStart
    \/ Record
    \/ Sync

SpecCap == Init /\ [][NextCap]_vars

(* The detector on one pair of snapshots, whatever the two snapshots hold:       *)
(* any position or none, any altitude or none, a pilot with or without a CID.    *)

PosAll == {None, Some(0), Some(1), Some(2), Some(4), Some(5)}
AltAll == {None, Some(0 - 100), Some(0), Some(ALT_CEILING), Some(ALT_CEILING + 1)}

ListsDetect ==
    ListsOf(Fleet[1], PosAll, AltAll) \cup ListsOf(Fleet[2], PosAll, AltAll)
    \cup {<<o1, o2>> : o1 \in ObsOf(Fleet[1], {Some(0), Some(2)}, {Some(ALT_CEILING)}),
                       o2 \in ObsOf(Fleet[2], {Some(0), Some(2)}, {Some(ALT_CEILING)})}

\* two fetches, 20 s apart, have saved their snapshots; no precompute has started
InitDetect ==
    /\ clock = 40
    /\ \E p \in ListsDetect, l \in ListsDetect :
          snaps = <<[fetched_at |-> 40, ac |-> l], [fetched_at |-> 20, ac |-> p]>>
    /\ pending = <<20, 40>>
    /\ job = IdleJob
    /\ events = <<>>
    /\ current = [id \in Idents |-> None]
    /\ incidents = <<>>
    /\ cache = None
    /\ last = Op("fetch")
    /\ ran = NoTs
    /\ run = [id \in Idents |-> NoRun]
    /\ AuxInit

NextDetect ==
    \/ PrecomputeStart
    \/ ApiStart
    \/ Record
    \/ Sync

SpecDetect == InitDetect /\ [][NextDetect]_vars

-----------------------------------------------------------------------------
(* C1 *)

\* eligible, as the claim says it: position present, altitude present and <= 17,999 ft
ClaimEligible(a) == a.pos # None /\ a.altitude # None /\ a.altitude[1] <= 17999

\* the eligible observations of id in prev
ClaimPrev(prev_ac, id) ==
    {j \in 1..Len(prev_ac) : Ident(prev_ac[j]) = id /\ ClaimEligible(prev_ac[j])}

\* the zones the segment from p to q intersects
SegmentZones(p, q) == {Zones[i].name : i \in {k \in ZoneIdx : ShpIntersectsLine(Zones[k], p, q)}}

\* the zones the point is inside or on
PointZones(p) == {Zones[i].name : i \in {k \in ZoneIdx : ShpIntersects(Zones[k], p)}}

SeqToSet(q) == {q[i] : i \in 1..Len(q)}

\* the zones the claim says are matched for the aircraft a of latest, {} for no breach
ClaimZones(prev_ac, a) ==
    LET pj == ClaimPrev(prev_ac, Ident(a))
        lp == a.pos[1]
        seg == IF pj = {} THEN {} ELSE SegmentZones(prev_ac[Last(pj)].pos[1], lp)
    IN  IF seg # {} THEN seg
        ELSE IF PointZones(lp) # {} /\ (pj = {} \/ PointZones(prev_ac[Last(pj)].pos[1]) = {})
        THEN PointZones(lp)
        ELSE {}

\* the zones the detector call has reported for id, {} for no breach
ReportedZones(id) ==
    UNION {SeqToSet(job.breaches[i].zones) :
             i \in {k \in 1..Len(job.breaches) : job.breaches[k].identifier = id}}

\* C1: for every eligible aircraft of the latest snapshot the detector reports a
\* breach exactly when the segment prev->latest intersects a zone (matched: all the
\* zones it intersects), or else the latest point is in or on a zone and there is
\* no eligible prev observation or the prev point is in no zone.
C1_BreachExactlyWhen ==
    job.pc = "run" =>
        \A i \in 1..Len(job.latest_ac) :
            ClaimEligible(job.latest_ac[i]) =>
                ReportedZones(Ident(job.latest_ac[i])) = ClaimZones(job.prev_ac, job.latest_ac[i])

\* C1, for the altitudes that are not 0: the detector agrees with the claim
C1_BreachExactlyWhenNonZero ==
    job.pc = "run" =>
        \A i \in 1..Len(job.latest_ac) :
            /\ ClaimEligible(job.latest_ac[i])
            /\ job.latest_ac[i].altitude # Some(0)
            /\ \A j \in 1..Len(job.prev_ac) : job.prev_ac[j].altitude # Some(0)
            => ReportedZones(Ident(job.latest_ac[i])) = ClaimZones(job.prev_ac, job.latest_ac[i])

\* a breach has been reported for a segment that crosses both zones
C1_Reached ==
    /\ job.pc = "run"
    /\ \E i \in 1..Len(job.breaches) : Len(job.breaches[i].zones) = 2

-----------------------------------------------------------------------------
(* Steps and observations the properties of the tracker speak of *)

\* the step is the sync_snapshot that ends a detector call
IsSync == job.pc = "run" /\ job.queue = <<>> /\ job'.pc = "idle"

\* the step hands the detection at the head of the queue to record_penetration
IsRecord == job.pc = "run" /\ job.queue # <<>> /\ job' # job

\* the events stored for id
EventsFor(ev, id) == {i \in 1..Len(ev) : StrCid(ev[i]) = id}

\* the events of id that have no exit_confirmed_at
OpenEvents(ev, id) == {i \in EventsFor(ev, id) : ev[i].exit_confirmed_at = NoTs}

\* id is tracked: p56_buster is true and it has at least one event
Tracked(id) ==
    current[id] # None /\ current[id][1].p56_buster /\ EventsFor(events, id) # {}

\* the snapshot being synced shows the aircraft with CID id in or on a zone
SeenInside(id) ==
    \E i \in 1..Len(job.latest_ac) :
        /\ job.latest_ac[i].cid = Some(id)
        /\ job.latest_ac[i].pos # None
        /\ PointZones(job.latest_ac[i].pos[1]) # {}

-----------------------------------------------------------------------------
(* C2 *)

\* C2: at a sync, for an id with p56_buster true and at least one event,
\* outside_count becomes 0 if the aircraft is in or on a zone and count + 1
\* otherwise; while the new count is at most 9 p56_buster stays true and
\* exit_confirmed_at is not touched; when it reaches 10 p56_buster becomes false
\* and exit_confirmed_at is stamped on the most recent event of the id.
C2_SyncCountsOutside ==
    [][IsSync =>
        \A id \in Idents : Tracked(id) =>
            LET li == Last(EventsFor(events, id))
                c == current[id][1]
                d == current'[id][1]
            IN  /\ SeenInside(id) => d.outside_count = 0
                /\ ~SeenInside(id) => d.outside_count = c.outside_count + 1
                /\ d.outside_count <= 9 =>
                       /\ d.p56_buster
                       /\ events'[li].exit_confirmed_at = events[li].exit_confirmed_at
                /\ d.outside_count >= 10 =>
                       /\ d.outside_count = 10
                       /\ ~d.p56_buster
                       /\ li = Last(EventsFor(events', id))
                       /\ events'[li].exit_confirmed_at # NoTs]_vars

\* a sync has brought the count of a tracked CID to 10 and confirmed the exit
C2_Reached ==
    /\ last.op = "sync"
    /\ \E id \in Idents :
          /\ current[id] # None
          /\ current[id][1].outside_count = 10
          /\ ~current[id][1].p56_buster
          /\ EventsFor(events, id) # {}
          /\ events[Last(EventsFor(events, id))].exit_confirmed_at # NoTs

-----------------------------------------------------------------------------
(* C3 *)

\* the event of id holds one position, the aircraft is tracked and not yet out
RunOpen(id, n) ==
    /\ current[id] # None
    /\ current[id][1].p56_buster
    /\ current[id][1].outside_count = n
    /\ events[Last(EventsFor(events, id))].exit_confirmed_at = NoTs

\* the exit of id has been confirmed
RunClosed(id) ==
    /\ current[id] # None
    /\ ~current[id][1].p56_buster
    /\ events[Last(EventsFor(events, id))].exit_confirmed_at # NoTs

-----------------------------------------------------------------------------
(* C4 *)

\* C4: while the inside flag of an id is true no event is added for it: a
\* detection for it leaves the history file as it is; and a sync that sees the
\* tracked aircraft in or on a zone keeps the flag true.
C4_InsideSuppresses ==
    [][\A id \in Idents :
          /\ (current[id] # None /\ current[id][1].inside) =>
                 /\ Cardinality(EventsFor(events', id)) = Cardinality(EventsFor(events, id))
                 /\ (IsRecord /\ Head(job.queue).identifier = id) =>
                        events' = events /\ current' = current
          /\ (IsSync /\ Tracked(id) /\ SeenInside(id)) => current'[id][1].inside]_vars

\* a detection for an aircraft flagged inside has been dropped; it has one event
C4_Reached ==
    /\ last.op = "record"
    /\ last.outcome = "suppressed"
    /\ current[last.id] # None
    /\ current[last.id][1].inside
    /\ Cardinality(EventsFor(events, last.id)) = 1

-----------------------------------------------------------------------------
(* C5 *)

\* C5: every id has at most one event without exit_confirmed_at, and while its
\* p56_buster is true that open event exists and is the newest event of the id.
C5_OneOpenEvent ==
    \A id \in Idents :
        /\ Cardinality(OpenEvents(events, id)) <= 1
        /\ (current[id] # None /\ current[id][1].p56_buster /\ job.pc = "idle") =>
               OpenEvents(events, id) = {Last(EventsFor(events, id) \cup {0})}

-----------------------------------------------------------------------------
(* C6 *)

\* C6: a detection for an id that is not flagged inside and whose most recent
\* event has recorded_at within 60 s of the time of recording (inclusive) adds
\* no event: the event keeps its recorded_at, its latest_ts becomes the larger of
\* the old and the new, and current_inside[id] is reset to inside, p56_buster
\* true, outside_count 0.
C6_MergeWithinWindow ==
    [][IsRecord =>
        LET e == Head(job.queue)
            id == e.identifier
            mine == EventsFor(events, id)
        IN  (/\ ~(current[id] # None /\ current[id][1].inside)
             /\ mine # {}
             /\ clock - events[Last(mine)].recorded_at <= 60) =>
                /\ Len(events') = Len(events)
                /\ \A i \in 1..Len(events) : i # Last(mine) => events'[i] = events[i]
                /\ events'[Last(mine)].recorded_at = events[Last(mine)].recorded_at
                /\ events'[Last(mine)].latest_ts =
                       Max(events[Last(mine)].latest_ts, e.latest_ts)
                /\ current'[id] # None
                /\ current'[id][1].inside
                /\ current'[id][1].p56_buster
                /\ current'[id][1].outside_count = 0]_vars

\* a detection has been merged exactly 60 s after the event was recorded
C6_Reached ==
    /\ last.op = "record"
    /\ last.outcome = "merged"
    /\ EventsFor(events, last.id) # {}
    /\ clock - events[Last(EventsFor(events, last.id))].recorded_at = 60
    /\ current[last.id][1].outside_count = 0

-----------------------------------------------------------------------------
(* C7 *)

\* C7: once the exit of an id is confirmed (p56_buster false), the next detection
\* for it appends a new event, whatever the time since the last one.
C7_NewEventAfterExit ==
    [][IsRecord =>
        LET id == Head(job.queue).identifier
        IN  (current[id] # None /\ ~current[id][1].p56_buster) =>
                /\ Len(events') = Len(events) + 1
                /\ StrCid(events'[Len(events')]) = id]_vars

-----------------------------------------------------------------------------
(* C8 *)

\* C8: a detector call on a snapshot pair that a completed call has already
\* processed leaves the history file as it found it: no event, no intrusion
\* position, no change of outside_count.
C8_ReplayIdempotent ==
    [][(IsSync /\ job.base # None) =>
          /\ events' = job.base[1].events
          /\ current' = job.base[1].current]_vars

-----------------------------------------------------------------------------
(* C9 *)

\* C9: a detection that creates or merges an event writes exactly one incident
\* row (detected_at = latest_ts, the cid, the zones); a dropped one writes none.
C9_IncidentPerDetection ==
    [][IsRecord =>
        IF last'.outcome \in {"created", "merged"}
        THEN incidents' = Append(incidents, IncidentRow(Head(job.queue)))
        ELSE incidents' = incidents]_vars

-----------------------------------------------------------------------------
(* C10 *)

\* the track is strictly increasing in ts, consecutive points at least 1 s apart,
\* and holds at most 200 points
TrackOk(p) ==
    /\ Len(p) <= 200
    /\ \A k \in 1..(Len(p) - 1) : p[k].ts < p[k + 1].ts /\ p[k + 1].ts - p[k].ts >= 1

\* C10: in every state, every event's intrusion_positions is strictly increasing
\* in ts with consecutive points at least 1 s apart and has at most 200 points;
\* a point appended to a full track drops the oldest point.
C10_TrackOrderedAndCapped ==
    [][/\ \A i \in 1..Len(events') : TrackOk(events'[i].intrusion_positions)
       /\ \A i \in 1..Len(events) :
             LET p == events[i].intrusion_positions
                 q == events'[i].intrusion_positions
             IN  (Len(events') >= i /\ Len(p) = 200 /\ q # p) =>
                     /\ Len(q) = 200
                     /\ SubSeq(q, 1, 199) = Tail(p)
                     /\ q[200].ts > p[200].ts]_vars

\* a track is full and its oldest point has been dropped
C10_Reached ==
    \E i \in 1..Len(events) :
        /\ Len(events[i].intrusion_positions) = 200
        /\ events[i].intrusion_positions[1].ts > events[i].latest_ts

-----------------------------------------------------------------------------
(* C11 *)

\* the threads that are running precompute_all
Running == {w \in Workers : pool[w].pc # "idle"}

\* C11: a fetch that fires while the precompute of an earlier fetch is still
\* running starts no precompute of its own, so at most one precompute is
\* executing at any time.
C11_OnePrecomputeAtATime == Cardinality(Running) <= 1


(* C12 *)
\* the event e is in the file ev (an event is known by its aircraft and recorded_at)
Holds(ev, e) == \E i \in 1..Len(ev) : ev[i].identifier = e.identifier /\ ev[i].recorded_at = e.recorded_at

\* C12: the load-modify-write updates of the P-56 history are serialized: in
\* every step other than the admin purge, each event that is in the file before
\* the step is still in the file after it.
C12_EventsOnlyPurged ==
    [][last'.op # "clear" => \A e \in EventSet(events) : Holds(events', e)]_vars


(* C13 *)
\* the thread w writes the history file in this step
Writes(w) == pool[w].pc \in {"recwrite", "syncwrite"} /\ pool'[w].pc # pool[w].pc

\* C13: the admin purge excludes the pipeline's writes: when a thread that had
\* loaded the history file before a purge writes it, none of the events the
\* purge removed is in the file again.
C13_PurgedStayPurged ==
    [][\A w \in Workers : Writes(w) => \A e \in pool[w].lost : ~Holds(events', e)]_vars


(* C14 *)
\* the entries of the Read Cache that a reader finds
Published == {k \in Keys : rc[k] # None}

\* C14: the five entries of the Read Cache are published as one bundle: the
\* entries a reader finds all carry the same computed_at.
C14_OneBundle == \A j, k \in Published : rc[j][1].computed_at = rc[k][1].computed_at

(* C15 *)
\* C15: for each key of the Read Cache, computed_at never decreases: a
\* precompute of an older fetch never overwrites the result of a newer one.
C15_ComputedAtMonotonic ==
    [][\A k \in Published : rc'[k] # None /\ rc'[k][1].computed_at >= rc[k][1].computed_at]_vars


-----------------------------------------------------------------------------
(* The Snapshot Store by itself: save_snapshot and the reads of the snapshots *)
(* table.  A regular save carries the next clock reading; a save may also     *)
(* carry the reading of the save before it, or an old timestamp.              *)

KEEP_RECENT == 100
MaxSaves == 103         \* SpecStore: no save once this many rows have been inserted
MaxSkew == 1            \* SpecStore: saves that may carry a timestamp that is not new
OldTs == 1              \* SpecStore: the old timestamp a save may carry

\* a row of the snapshots table; the n-th payload saved is n
Row(id, t, d) == [id |-> id, fetched_at |-> t, raw_json |-> d]

\* the rows of a table
RowsOf(rows) == {rows[i] : i \in 1..Len(rows)}

\* INTEGER PRIMARY KEY: the id of the next row inserted
NextId == IF store = <<>> THEN 1 ELSE store[Len(store)].id + 1

\* ORDER BY fetched_at DESC LIMIT 1 over the rows S: the rows that may come first
\* (the order of rows of equal fetched_at is not determined)
First(S) == {r \in S : \A q \in S : q.fetched_at <= r.fetched_at}

\* a cleanup that deletes the row inserted first (sensitivity of C16)
VictimsOldest(rows) == IF Len(rows) <= KEEP_RECENT THEN {} ELSE {rows[1]}

\* _cleanup_old_snapshots: the rows that may be outside the newest KEEP_RECENT by
\* fetched_at; it runs after every insert, so at most one row is in excess
Victims(rows) ==
    IF Len(rows) <= KEEP_RECENT THEN {}
    ELSE {r \in RowsOf(rows) : \A q \in RowsOf(rows) : r.fetched_at <= q.fetched_at}

\* the tables _cleanup_old_snapshots may leave
Cleaned(rows) ==
    IF Victims(rows) = {} THEN {rows}
    ELSE {SelectSeq(rows, LAMBDA r : r # v) : v \in Victims(rows)}

\* save_snapshot(data, fetched_at): INSERT, then _cleanup_old_snapshots()
SaveSnapshot ==
    \E t \in {clock + 1, clock, OldTs} :
        LET row == Row(NextId, t, Cardinality(ever) + 1)
        IN  /\ Cardinality(ever) < MaxSaves
            /\ t >= 1
            /\ t <= clock => Cardinality(ever) - clock < MaxSkew
            /\ clock' = IF t > clock THEN t ELSE clock
            /\ store' \in Cleaned(Append(store, row))
            /\ ever' = ever \cup {row}
            /\ got' = <<>>
            /\ last' = Op("save")
            /\ UNCHANGED <<snaps, pending, job, events, current, incidents, cache, ran, run>>
            /\ UNCHANGED <<pool, rc, hist, rbase, adm, fetcher, backend, reply, registry>>

\* what a read returns of a row
Out(r) == [data |-> r.raw_json, fetched_at |-> r.fetched_at]

\* list_snapshots(limit=n) for n = 1 (get_latest_snapshot) and n = 2 (get_latest_snapshots)
ListSnapshots ==
    \E n \in 1..2 :
        /\ store # <<>>
        /\ \E a \in First(RowsOf(store)) :
              \E b \in (IF n = 1 \/ Len(store) = 1 THEN {a} ELSE First(RowsOf(store) \ {a})) :
                  got' = IF b = a THEN <<Out(a)>> ELSE <<Out(a), Out(b)>>
        /\ last' = Op("list")
        /\ UNCHANGED <<clock, snaps, pending, job, events, current, incidents, cache, ran, run>>
        /\ UNCHANGED <<pool, rc, store, ever, hist, rbase, adm, fetcher, backend, reply, registry>>

NextStore == SaveSnapshot \/ ListSnapshots

SpecStore == Init /\ [][NextStore]_vars

(* C16 *)
\* the snapshots inserted and no longer stored
Deleted == ever \ RowsOf(store)

\* C16: after every save_snapshot the store holds at most KEEP_RECENT snapshots,
\* and they are the (up to) KEEP_RECENT snapshots of greatest fetched_at among
\* all the snapshots ever saved.
C16_NewestKept ==
    last.op = "save" =>
        /\ Len(store) = Min(KEEP_RECENT, Cardinality(ever))
        /\ RowsOf(store) \subseteq ever
        /\ \A k \in RowsOf(store), d \in Deleted : k.fetched_at >= d.fetched_at

\* a save has filled the store beyond KEEP_RECENT, and a snapshot saved later
\* than a stored one has been deleted
C16_Reached ==
    /\ last.op = "save"
    /\ Len(store) = KEEP_RECENT
    /\ \E d \in Deleted : \E k \in RowsOf(store) : d.raw_json > k.raw_json


(* C17 *)
\* the snapshot the last save_snapshot inserted, as a read returns it
JustSaved == Out(CHOOSE r \in ever : r.raw_json = Cardinality(ever))

\* the snapshots stored apart from the one just saved
Others == {r \in RowsOf(store) : r.raw_json # JustSaved.data}

\* C17: a read that follows a save_snapshot(d, t) with t at or above every
\* stored fetched_at returns d with t first, and the read of two snapshots
\* returns after it a snapshot of the greatest fetched_at among the others.
C17_LatestIsJustSaved ==
    [][(/\ last.op = "save"
        /\ last'.op = "list"
        /\ \A r \in RowsOf(store) : r.fetched_at <= JustSaved.fetched_at)
       => /\ got'[1] = JustSaved
          /\ Len(got') = 2 => \E r \in First(Others) : got'[2] = Out(r)]_vars


-----------------------------------------------------------------------------
(* The pipeline with the track history enabled (VNCRCC_WRITE_JSON_HISTORY=1), *)
(* each precompute complete before the next fetch, 5 s apart.                  *)

MaxClockTrack == 30     \* SpecTrack: no fetch after this time
RING_SIZE == 10
FarPos == 400           \* a position beyond the trim radius

\* the aircraft list of the Read Cache: cached.get("aircraft", []) if cached else []
CachedList == IF rc["aircraft_list"] = None THEN <<>> ELSE rc["aircraft_list"][1].val

\* filtered_cids of _on_fetch._bg
filtered_cids(aircraft) == {Ident(aircraft[i]) : i \in 1..Len(aircraft)}

\* history_updates of _on_fetch._bg: cid -> position, for the aircraft that have one
history_updates(aircraft) ==
    [id \in Idents |->
        LET idx == {i \in 1..Len(aircraft) : Ident(aircraft[i]) = id /\ aircraft[i].pos # None}
        IN  IF idx = {} THEN None ELSE Some(aircraft[Last(idx)].pos[1])]

\* a ring that keeps its first points and drops the new one (sensitivity of C35)
LastPointsOldest(ring) == IF Len(ring) <= RING_SIZE THEN ring ELSE SubSeq(ring, 1, RING_SIZE)

\* history[cid][-10:]
LastPoints(ring) == IF Len(ring) <= RING_SIZE THEN ring ELSE SubSeq(ring, Len(ring) - RING_SIZE + 1, Len(ring))

\* update_history_batch(updates, filtered_cids) at the time now
update_history_batch(h, updates, cids, now) ==
    [id \in Idents |->
        LET kept == IF id \in cids THEN h[id] ELSE <<>>
        IN  IF updates[id] = None THEN kept
            ELSE LastPoints(Append(kept, [pos |-> updates[id][1], ts |-> now]))]

\* the track history after the history step of _on_fetch._bg
HistoryStep(h, aircraft, now) ==
    IF \A id \in Idents : history_updates(aircraft)[id] = None THEN h
    ELSE update_history_batch(h, history_updates(aircraft), filtered_cids(aircraft), now)

\* _on_fetch(data, ts) with the track history enabled
FetchTrack(lists, dts, maxClock) ==
    \E data \in lists, dt \in dts :
        /\ clock + dt <= maxClock
        /\ \A w \in Workers : pool[w].pc = "idle"
        /\ clock' = clock + dt
        /\ snaps' = Saved(data, clock')
        /\ hist' = HistoryStep(hist, CachedList, clock')
        /\ pool' = [pool EXCEPT ![FreeThread] =
                       [IdleThread EXCEPT !.pc = "status", !.ts = clock', !.data = data]]
        /\ last' = Op("fetch")
        /\ UNCHANGED <<pending, job, events, current, incidents, cache, ran, run>>
        /\ UNCHANGED <<rc, store, ever, rbase, got, adm, fetcher, backend, reply, registry>>

ListsTrack ==
    ListsOf(Fleet[1], {None, Some(0), Some(2), Some(FarPos)}, {Some(ALT_CEILING)})
    \cup {<<o1, o2>> : o1 \in ObsOf(Fleet[1], {Some(0)}, {Some(ALT_CEILING)}),
                       o2 \in ObsOf(Fleet[2], {Some(0), Some(FarPos)}, {Some(ALT_CEILING)})}
DtTrack == {5}

NextTrack ==
    \/ FetchTrack(ListsTrack, DtTrack, MaxClockTrack)
    \/ \E w \in Workers :
          \/ T_Status(w)
          \/ T_Sfra(w)
          \/ T_Frz(w)
          \/ T_Detect(w)
          \/ T_Load(w)
          \/ T_RecWrite(w)
          \/ T_SyncWrite(w)
          \/ T_P56(w)
          \/ T_AircraftList(w)

SpecTrack == Init /\ [][NextTrack]_vars

(* C18 *)
\* a pipeline tick has just completed
TickDone == last.op = "publish" /\ \A w \in Workers : pool[w].pc = "idle"

\* C18: after each pipeline tick the track history holds a ring for an aircraft
\* exactly when the aircraft is in that tick's trimmed aircraft list, and no
\* ring holds more than 10 points.
C18_RingsFollowList ==
    TickDone =>
        \A id \in Idents :
            /\ hist[id] # <<>> <=> id \in filtered_cids(CachedList)
            /\ Len(hist[id]) <= RING_SIZE


-----------------------------------------------------------------------------
(* The first tick after startup under load: a feed of one aircraft or of a     *)
(* crowd around the tier thresholds, under any configured trim radius.  The    *)
(* detector finds fewer than two snapshots and returns, so the precompute does *)
(* not touch the history file.                                                 *)

MaxClockSurge == 20     \* SpecSurge: no fetch after this time
MidPos == 102           \* a position between the surge radius and the busy radius

\* the configured radius, VNCRCC_TRIM_RADIUS_NM
RadiiSurge == {0, 50, SURGE_RADIUS_NM, 100, BUSY_RADIUS_NM, TRIM_RADIUS_NM}

\* the sizes of the feed
CountsSurge == {1, BUSY_COUNT, BUSY_COUNT + 1, SURGE_COUNT, SURGE_COUNT + 1}

\* a feed of n pilots, the first at p and the others at MidPos
Crowd(n, p) ==
    [i \in 1..n |-> [callsign |-> Fleet[1].callsign, cid |-> Fleet[1].cid,
                     pos |-> IF i = 1 THEN p ELSE Some(MidPos), altitude |-> Some(ALT_CEILING)]]

ListsSurge == {<<>>} \cup {Crowd(n, p) : n \in CountsSurge, p \in {Some(0), Some(2)}}
DtSurge == {20}

InitSurge ==
    /\ TrackerInit
    /\ pool = [w \in Workers |-> IdleThread]
    /\ rc = [k \in Keys |-> None]
    /\ store = <<>>
    /\ ever = {}
    /\ hist = [id \in Idents |-> <<>>]
    /\ got = <<>>
    /\ adm = NoAdmin
    /\ fetcher = NewFetcher
    /\ backend = "sqlalchemy"
    /\ reply = None
    /\ registry = <<>>
    /\ rbase \in RadiiSurge

NextSurge ==
    \/ FetchConc(ListsSurge, DtSurge, MaxClockSurge)
    \/ \E w \in Workers :
          \/ T_Status(w)
          \/ T_Sfra(w)
          \/ T_Frz(w)
          \/ T_Detect(w)
          \/ T_P56(w)
          \/ T_AircraftList(w)

SpecSurge == InitSurge /\ [][NextSurge]_vars

(* C19 *)
\* the radius the tiers give: above 500 aircraft, above 300 and up to 500, otherwise
TierRadius(total, R) ==
    CASE total > 500 -> Min(R, 80)
      [] total > 300 /\ total <= 500 -> Min(R, 150)
      [] OTHER -> R

-----------------------------------------------------------------------------
(* Two ticks of the pipeline on an aircraft at any altitude: none, negative,   *)
(* zero, the ceiling, above the ceiling.  Each precompute is complete before   *)
(* the next fetch.                                                             *)

MaxClockAlt == 40       \* SpecAlt: no fetch after this time

ListsAlt == ListsOf(Fleet[1], {Some(0), Some(2)}, AltAll)
DtAlt == {20}

NextAlt ==
    \/ (\A w \in Workers : pool[w].pc = "idle") /\ FetchConc(ListsAlt, DtAlt, MaxClockAlt)
    \/ \E w \in Workers :
          \/ T_Status(w)
          \/ T_Sfra(w)
          \/ T_Frz(w)
          \/ T_Detect(w)
          \/ T_Load(w)
          \/ T_RecWrite(w)
          \/ T_SyncWrite(w)
          \/ T_P56(w)
          \/ T_AircraftList(w)

SpecAlt == Init /\ [][NextAlt]_vars

(* C20 *)
\* the altitude is present and at or below 17,999 ft
UnderCeiling(a) == a.altitude # None /\ a.altitude[1] <= 17999

\* the aircraft of the snapshot fetched at ts
FeedAt(ts) == IF \E i \in 1..Len(snaps) : snaps[i].fetched_at = ts
              THEN snaps[CHOOSE i \in 1..Len(snaps) : snaps[i].fetched_at = ts].ac
              ELSE <<>>

\* the aircraft a is located inside one of the shapes
Located(a, shapes) == a.pos # None /\ \E i \in 1..Len(shapes) : shapes[i].lo <= a.pos[1] /\ a.pos[1] <= shapes[i].hi

\* the geofence entry k of the Read Cache is right about the feed it was computed from
GeofenceByAltitude(k, shapes) ==
    rc[k] # None =>
        \A a \in SeqToSet(FeedAt(rc[k][1].computed_at)) :
            Located(a, shapes) => (a \in SeqToSet(rc[k][1].val) <=> UnderCeiling(a))

\* the published P-56 entry is right about an aircraft that entered from outside
DetectorByAltitude ==
    (rc["p56"] # None /\ Len(snaps) = 2 /\ rc["p56"][1].computed_at = snaps[1].fetched_at) =>
        \A a \in SeqToSet(snaps[1].ac), p \in SeqToSet(snaps[2].ac) :
            (Located(a, Zones) /\ ~Located(p, Zones) /\ p.pos # None /\ UnderCeiling(p))
            => ((\E i \in 1..Len(rc["p56"][1].val) : rc["p56"][1].val[i].identifier = Ident(a))
                <=> UnderCeiling(a))

\* C20: the geofence engine and the P-56 detector consider an observation
\* exactly when its altitude is present and at most 17,999 ft, whatever the
\* value (zero and negative values included): an aircraft inside a zone is
\* matched when its altitude is at most 17,999 and excluded when it is 18,000
\* or more or missing.
C20_AltitudeFilter ==
    /\ GeofenceByAltitude("sfra", SfraZones)
    /\ GeofenceByAltitude("frz", FrzZones)
    /\ DetectorByAltitude


-----------------------------------------------------------------------------
(* The admin purge endpoint, POST /p56/clear, beside the pipeline in its normal *)
(* course; VNCRCC_ADMIN_PASSWORD is unset, empty or set.                        *)

MaxClockAdmin == 20     \* SpecAdmin: no fetch after this time

\* the values of VNCRCC_ADMIN_PASSWORD
AdminPwds == {None, Some(""), Some("s3cret")}

\* payload.get("password") of the requests
Provided == {None, Some(""), Some("guess"), Some("s3cret")}

\* raise HTTPException(status_code=403, detail=...)
Forbidden(detail) == [status |-> 403, body |-> detail]

\* an endpoint that accepts any non-empty password (sensitivity of C21)
PasswordOkAny(pwd, provided) == provided # None /\ provided # Some("")

\* p56_clear: neither `not admin_pwd` nor `not provided or provided != admin_pwd`
PasswordOk(pwd, provided) ==
    /\ pwd # None /\ pwd # Some("")
    /\ provided # None /\ provided # Some("") /\ provided = pwd

\* the response of p56_clear
p56_clear_response(pwd, provided) ==
    IF pwd = None \/ pwd = Some("") THEN Forbidden("Server admin password not configured")
    ELSE IF ~PasswordOk(pwd, provided) THEN Forbidden("Invalid password")
    ELSE [status |-> 200, body |-> "cleared"]

\* POST /p56/clear with a JSON body
P56Clear ==
    \E provided \in Provided :
        /\ adm' = [adm EXCEPT !.req = provided, !.resp = Some(p56_clear_response(adm.pwd, provided))]
        /\ IF PasswordOk(adm.pwd, provided)
           THEN events' = <<>> /\ current' = [id \in Idents |-> None]
           ELSE UNCHANGED <<events, current>>
        /\ last' = Op("p56_clear")
        /\ UNCHANGED <<clock, snaps, pending, job, incidents, cache, ran, run>>
        /\ UNCHANGED <<pool, rc, store, ever, hist, rbase, got, fetcher, backend, reply, registry>>

InitAdmin ==
    /\ TrackerInit
    /\ pool = [w \in Workers |-> IdleThread]
    /\ rc = [k \in Keys |-> None]
    /\ store = <<>>
    /\ ever = {}
    /\ hist = [id \in Idents |-> <<>>]
    /\ rbase = TRIM_RADIUS_NM
    /\ got = <<>>
    /\ fetcher = NewFetcher
    /\ backend = "sqlalchemy"
    /\ reply = None
    /\ registry = <<>>
    /\ \E pwd \in AdminPwds : adm = [NoAdmin EXCEPT !.pwd = pwd]

FetchAdmin == job.pc = "idle" /\ Fetch(ListsSeq, DtSeq, MaxClockAdmin, 1)

NextAdmin ==
    \/ FetchAdmin
    \/ PrecomputeStart
    \/ Record
    \/ Sync
    \/ P56Clear

SpecAdmin == InitAdmin /\ [][NextAdmin]_vars

(* C21 *)
\* an admin password is configured and the supplied password equals it; an
\* empty VNCRCC_ADMIN_PASSWORD configures none
Authorized == adm.pwd \notin {None, Some("")} /\ adm'.req = adm.pwd

\* C21: p56_clear replaces the history with {events: [], current_inside: {}}
\* only when an admin password is configured and the supplied password equals
\* it; every other request is rejected as forbidden and leaves the history as
\* it was.
C21_ClearOnlyWithPassword ==
    [][last'.op = "p56_clear" =>
          IF Authorized
          THEN /\ events' = <<>>
               /\ \A id \in Idents : current'[id] = None
               /\ adm'.resp[1].status = 200
          ELSE /\ adm'.resp[1].status = 403
               /\ events' = events
               /\ current' = current]_vars

\* a purge with the right password has emptied a history that held the event of
\* the breach just published
C21_Reached ==
    /\ last.op = "p56_clear"
    /\ adm.resp = Some([status |-> 200, body |-> "cleared"])
    /\ events = <<>>
    /\ cache # None /\ cache[1].aircraft # <<>>

(* C22 *)
\* C22: a rejected purge request does not reveal whether the admin secret is
\* configured: the response to a request is the same under every setting of
\* VNCRCC_ADMIN_PASSWORD that rejects it.
C22_RejectionTellsNothing ==
    (last.op = "p56_clear" /\ adm.resp[1].status = 403) =>
        \A pwd \in AdminPwds :
            p56_clear_response(pwd, adm.req).status = 403
            => p56_clear_response(pwd, adm.req) = adm.resp[1]


-----------------------------------------------------------------------------
(* The poll loop of the VatsimClient by itself.  Times are in half seconds:    *)
(* now is time.time(), polls counts the fetches attempted and calls the        *)
(* invocations of the subscribers.                                             *)

MaxPolls == 41          \* SpecPoll: no fetch once this many have been attempted
PollVaried == 3         \* SpecPoll: after this many fetches every fetch succeeds on a fresh payload

\* n seconds, in half seconds
Sec(n) == 2 * n

\* the configured poll_interval
IntervalsPoll == {Sec(2), Sec(5), Sec(DEFAULT_INTERVAL), Sec(20), Sec(60)}

\* what ends a fetch early: timeout, client error, status other than 200, malformed JSON
Failures == {"timeout", "client_error", "status", "json"}

\* the age of the payload's update_timestamp at the fetch; none when the payload has no timestamp
Ages == {None, Some(0), Some(11), Some(29), Some(0 - 3)}

\* a poll loop whose failed fetch forgets the latest payload (sensitivity of C24)
AfterFailureReset(f) == [f EXCEPT !.pc = "sleep", !.polls = f.polls + 1,
                                  !.latest = None, !.latest_ts = None]

\* _poll_loop: the exception of _fetch_once is logged, the loop goes on to sleep
AfterFailure(f) == [f EXCEPT !.pc = "sleep", !.polls = f.polls + 1]

\* _fetch_once on a payload whose update timestamp has the age given
AfterSuccess(f, age) ==
    [f EXCEPT !.pc = "sleep", !.polls = f.polls + 1,
              !.latest = Some(f.polls + 1), !.latest_ts = Some(f.now),
              !.upstream = IF age = None THEN f.upstream ELSE Some(f.now - age[1]),
              !.calls = f.calls + 1]

\* what the poll loop leaves alone
PollFrame ==
    /\ UNCHANGED <<clock, snaps, pending, job, events, current, incidents, cache, ran, run>>
    /\ UNCHANGED <<pool, rc, store, ever, hist, rbase, got, adm, backend, reply, registry>>

\* await self._fetch_once() raises
FetchFails ==
    \E kind \in Failures :
        /\ fetcher.pc = "fetch"
        /\ fetcher.polls < PollVaried
        /\ fetcher' = AfterFailure(fetcher)
        /\ last' = [op |-> "fetch_failed", id |-> "", outcome |-> kind]
        /\ PollFrame

\* await self._fetch_once() returns
FetchSucceeds ==
    \E age \in Ages :
        /\ fetcher.pc = "fetch"
        /\ fetcher.polls < MaxPolls
        /\ fetcher.polls >= PollVaried => age = Some(0)
        /\ fetcher' = AfterSuccess(fetcher, age)
        /\ last' = Op("fetched")
        /\ PollFrame

\* self._sync_offset and self._resync_counter after _calculate_adaptive_sleep
Resynced(f) ==
    IF f.upstream # None /\ f.resync + 1 >= 20
    THEN [f EXCEPT !.offset = 1 + ((f.resync + 1) % 5), !.resync = 0]
    ELSE [f EXCEPT !.resync = f.resync + 1]

\* _calculate_adaptive_sleep(): the sleep duration
calculate_adaptive_sleep(f) ==
    IF f.upstream = None THEN f.interval
    ELSE LET seconds_into_cycle == (f.now - f.upstream[1]) % Sec(15)
             target_sleep == (Sec(15) - seconds_into_cycle) + Resynced(f).offset
         IN  Max(Sec(5), Min(Sec(20), target_sleep))

\* sleep_duration = self._calculate_adaptive_sleep(); await asyncio.sleep(sleep_duration)
Sleep ==
    \E late \in {0, 1} :
        /\ fetcher.pc = "sleep"
        /\ fetcher' = [Resynced(fetcher) EXCEPT
                          !.pc = "fetch",
                          !.slept = Some(calculate_adaptive_sleep(fetcher)),
                          !.now = fetcher.now + calculate_adaptive_sleep(fetcher) + late]
        /\ last' = Op("slept")
        /\ PollFrame

InitPoll ==
    /\ TrackerInit
    /\ pool = [w \in Workers |-> IdleThread]
    /\ rc = [k \in Keys |-> None]
    /\ store = <<>>
    /\ ever = {}
    /\ hist = [id \in Idents |-> <<>>]
    /\ rbase = TRIM_RADIUS_NM
    /\ got = <<>>
    /\ adm = NoAdmin
    /\ \E i \in IntervalsPoll : fetcher = [NewFetcher EXCEPT !.interval = i]
    /\ backend = "sqlalchemy"
    /\ reply = None
    /\ registry = <<>>

NextPoll == FetchFails \/ FetchSucceeds \/ Sleep

SpecPoll == InitPoll /\ [][NextPoll]_vars

(* C23 *)
\* C23: the sleep between two fetches is always within [5 s, 20 s], whatever
\* the configured interval, the upstream timestamp and the current time.
C23_SleepClamped ==
    fetcher.slept # None => Sec(5) <= fetcher.slept[1] /\ fetcher.slept[1] <= Sec(20)


(* C24 *)
\* C24: a fetch that fails leaves the fetcher's latest payload, latest_ts and
\* last known upstream timestamp as they were and invokes no subscriber, and
\* the poll loop goes on: it sleeps, and after the sleep it fetches again.
C24_FailedFetchKeepsLatest ==
    [][/\ last'.op = "fetch_failed" =>
            /\ fetcher'.latest = fetcher.latest
            /\ fetcher'.latest_ts = fetcher.latest_ts
            /\ fetcher'.upstream = fetcher.upstream
            /\ fetcher'.calls = fetcher.calls
            /\ fetcher'.pc = "sleep"
       /\ (last.op = "fetch_failed" /\ fetcher' # fetcher) =>
            /\ last'.op = "slept"
            /\ fetcher'.pc = "fetch"]_vars

\* a fetch has failed after one that succeeded, the loop has slept and the next
\* fetch has succeeded
C24_Reached ==
    /\ last.op = "fetched"
    /\ fetcher.calls = 2
    /\ fetcher.polls = 3
    /\ fetcher.latest = Some(3)
    /\ fetcher.upstream # None


-----------------------------------------------------------------------------
(* C25 *)
\* the snapshot being synced holds no observation of the aircraft id
Absent(id) == \A i \in 1..Len(job.latest_ac) : Ident(job.latest_ac[i]) # id

\* C25: at a sync, a tracked id whose aircraft is absent from the latest
\* snapshot is treated as outside: outside_count grows by one and
\* current_inside[id].inside becomes false.
C25_AbsentIsOutside ==
    [][IsSync =>
        \A id \in Idents : (Tracked(id) /\ Absent(id)) =>
            /\ current'[id][1].outside_count = current[id][1].outside_count + 1
            /\ current'[id][1].inside = FALSE]_vars


(* C26 *)
\* the observation a of the snapshot being synced has no CID, is in or on a
\* zone, and the aircraft is tracked under its callsign
TrackedByCallsign(a) ==
    /\ a.cid = None
    /\ a.pos # None /\ PointZones(a.pos[1]) # {}
    /\ current[a.callsign] # None /\ current[a.callsign][1].p56_buster

\* the positions tracked for the callsign key, over its events
TrackOf(ev, key) == {ev[i].intrusion_positions : i \in {j \in 1..Len(ev) : ev[j].identifier = key}}

\* C26: an aircraft without a CID is tracked under its callsign: at a sync in
\* which it is inside, its event stays open (p56_buster true), the sync does
\* not count it as outside and appends its position to the event's track.
C26_CallsignKeyTracked ==
    [][IsSync =>
        \A a \in SeqToSet(job.latest_ac) : TrackedByCallsign(a) =>
            /\ current'[a.callsign][1].p56_buster
            /\ current'[a.callsign][1].outside_count = 0
            /\ \E t \in TrackOf(events', a.callsign) :
                  t # <<>> /\ t[Len(t)] = job.latest_ts]_vars


(* C27 *)
\* the step belongs to the serving of a GET /p56/ request
Serving == job.kind = "api" /\ job.pc # "idle"

\* C27: serving a read request never writes the P-56 history or the incident
\* log: events, current_inside and the incident rows are the same after every
\* step of a GET /p56/ request as before it.
C27_ReadsDoNotWrite ==
    [][Serving => UNCHANGED <<events, current, incidents>>]_vars


-----------------------------------------------------------------------------
(* pre_positions of the events the precompute pipeline creates *)

PRE_CAP == 7

\* positions_by_cid of _detect_p56_intrusions with VNCRCC_WRITE_JSON_HISTORY=1:
\* aircraft_history defines no get_history_for_cid, so the import raises, the
\* except clause swallows it and the map stays empty for every aircraft
positions_by_cid == [id \in Idents |-> <<>>]

\* pre_positions[:7] of the newest-first list, reversed to oldest first
NewestCapped(ps) == IF Len(ps) <= PRE_CAP THEN ps ELSE SubSeq(ps, Len(ps) - PRE_CAP + 1, Len(ps))

\* the pre_positions of the event built for the detection e; <<>> for no key
pre_positions(e) ==
    LET cid == IF e.cid = None THEN "" ELSE e.cid[1]
    IN  IF cid # "" /\ cid \in Idents /\ positions_by_cid[cid] # <<>>
        THEN NewestCapped(SelectSeq(positions_by_cid[cid], LAMBDA p : p.ts < e.latest_ts))
        ELSE <<>>

(* C28 *)
\* the points of a track recorded before the time ts
Earlier(ring, ts) == SelectSeq(ring, LAMBDA p : p.ts < ts)

\* walking ps newest to oldest, the points strictly outside every zone until
\* the first inside point, at most n of them, oldest first
RECURSIVE WalkOutside(_, _)
WalkOutside(ps, n) ==
    IF ps = <<>> \/ n = 0 \/ PointZones(ps[Len(ps)].pos) # {} THEN <<>>
    ELSE Append(WalkOutside(SubSeq(ps, 1, Len(ps) - 1), n - 1), ps[Len(ps)])

\* the event the write of this step has created
CreatedEvent == events'[Len(events')]

\* the write of this step creates an event for an id with earlier track points
CreatedWithTrack ==
    /\ last'.op = "write" /\ last'.outcome = "created"
    /\ Earlier(hist[last'.id], CreatedEvent.latest_ts) # <<>>

\* C28: when a new event is created for an id whose track history holds points
\* recorded before the detection, its pre_positions are the outside points of
\* the walk of that history from the newest point back to the first inside
\* point, at most 7, oldest first.
C28_PrePositionsFromTrack ==
    [][CreatedWithTrack =>
        pre_positions(CreatedEvent) = WalkOutside(Earlier(hist[last'.id], CreatedEvent.latest_ts), PRE_CAP)]_vars


(* C29 *)
\* the thread w runs the detector in this step, on two stored snapshots
Detects(w) == pool[w].pc = "detect" /\ pool'[w].pc \in {"recload", "syncload"}

\* C29: the precompute triggered by snapshot N runs the detector with snapshot
\* N as latest: the timestamp and the aircraft the detector takes as latest are
\* those of the fetch that started the precompute, whatever was stored since.
C29_DetectorUsesOwnSnapshot ==
    [][\A w \in Workers : Detects(w) =>
          /\ pool'[w].latest_ts = pool[w].ts
          /\ pool'[w].latest_ac = pool[w].data]_vars


(* C30 *)
\* the sync of this step is the first in which the tracked id is outside or
\* absent: its outside_count goes from 0 to 1
FirstOutside(id) ==
    /\ Tracked(id)
    /\ current[id][1].outside_count = 0
    /\ current'[id][1].outside_count = 1

\* C30: exit_detected_at is stamped on the newest event of a tracked id at the
\* first sync in which the aircraft is outside or absent, not only at the sync
\* that confirms the exit.
C30_ExitDetectedAtFirstOutside ==
    [][IsSync =>
        \A id \in Idents : FirstOutside(id) =>
            events'[LastEventIdx(events', id)].exit_detected_at # NoTs]_vars


-----------------------------------------------------------------------------
(* A start on the history file an earlier run has left (data/p56_history.json *)
(* is read from disk at every call) with a new, empty Snapshot Store          *)
(* (VNCRCC_DATABASE_URL names another database).                              *)

ColdStart == 100        \* SpecCold: the time of the start
EarlierTs == 90         \* SpecCold: the time of the earlier run's detection
MaxClockCold == 130     \* SpecCold: no fetch after this time

\* the history file after the earlier run has recorded the pilot inside P-56A
LeftBehind ==
    record_penetration(<<>>, [id \in Idents |-> None],
                       DetectionOf(Fleet[1], <<"P-56A">>, EarlierTs), EarlierTs)

InitCold ==
    /\ clock = ColdStart
    /\ snaps = <<>>
    /\ pending = <<>>
    /\ job = IdleJob
    /\ \/ events = <<>> /\ current = [id \in Idents |-> None]
       \/ events = LeftBehind.events /\ current = LeftBehind.current
    /\ incidents = <<>>
    /\ cache = None
    /\ last = NoOp
    /\ ran = NoTs
    /\ run = [id \in Idents |-> NoRun]
    /\ AuxInit

FetchCold == job.pc = "idle" /\ Fetch(ListsSeq, DtSeq, MaxClockCold, 1)

NextCold ==
    \/ FetchCold
    \/ PrecomputeStart
    \/ Record
    \/ Sync

SpecCold == InitCold /\ [][NextCold]_vars

(* C31 *)
\* the step is a detector call that finds fewer than two snapshots stored
ShortOfSnapshots ==
    /\ job.pc = "idle" /\ pending # <<>> /\ pending' = Tail(pending)
    /\ Len(snaps) < 2

\* the history after a sync_snapshot on the one stored snapshot
SyncedAlone ==
    sync_snapshot(events, current, IF snaps = <<>> THEN <<>> ELSE snaps[1].ac,
                  IF snaps = <<>> THEN clock ELSE snaps[1].fetched_at)

\* C31: with fewer than two snapshots stored the tracker reports no detection
\* and still runs the continuous-tracking sync for the ids of current_inside.
C31_SyncWithoutPrev ==
    [][ShortOfSnapshots =>
          /\ cache' # None /\ cache'[1].aircraft = <<>>
          /\ events' = SyncedAlone.events
          /\ current' = SyncedAlone.current]_vars


-----------------------------------------------------------------------------
(* The pipeline with a Snapshot Store whose INSERT may fail, under either     *)
(* Storage class; each precompute completes before the next fetch.            *)

MaxClockSave == 20      \* SpecSave: no fetch after this time

\* storage.py provides storage_sqlalchemy.Storage when SQLAlchemy imports, and
\* its own sqlite3 class otherwise
Backends == {"sqlalchemy", "sqlite3"}

\* Storage.save_snapshot when the INSERT fails: the SQLAlchemy class returns 0,
\* the sqlite3 class lets the exception through
save_snapshot_fails(b) == IF b = "sqlalchemy" THEN "returns" ELSE "raises"

\* _on_fetch(data, ts) when save_snapshot fails: an exception leaves the
\* try block before _bg is created, a return value lets the callback go on
FetchUnsaved(lists, dts, maxClock) ==
    \E data \in lists, dt \in dts :
        /\ clock + dt <= maxClock
        /\ \A w \in Workers : pool[w].pc = "idle"
        /\ clock' = clock + dt
        /\ pool' = IF save_snapshot_fails(backend) = "raises" THEN pool
                   ELSE [pool EXCEPT ![FreeThread] =
                            [IdleThread EXCEPT !.pc = "status", !.ts = clock', !.data = data]]
        /\ last' = [op |-> "fetch", id |-> "", outcome |-> "unsaved"]
        /\ UNCHANGED <<snaps, pending, job, events, current, incidents, cache, ran, run>>
        /\ UNCHANGED <<rc, store, ever, hist, rbase, got, adm, fetcher, backend, reply, registry>>

\* _on_fetch(data, ts) when the snapshot is saved
FetchSaved(lists, dts, maxClock) ==
    /\ \A w \in Workers : pool[w].pc = "idle"
    /\ FetchConc(lists, dts, maxClock)

InitSave ==
    /\ TrackerInit
    /\ pool = [w \in Workers |-> IdleThread]
    /\ rc = [k \in Keys |-> None]
    /\ store = <<>>
    /\ ever = {}
    /\ hist = [id \in Idents |-> <<>>]
    /\ rbase = TRIM_RADIUS_NM
    /\ got = <<>>
    /\ adm = NoAdmin
    /\ fetcher = NewFetcher
    /\ backend \in Backends
    /\ reply = None
    /\ registry = <<>>

NextSave ==
    \/ FetchSaved(ListsConc, DtSeq, MaxClockSave)
    \/ FetchUnsaved(ListsConc, DtSeq, MaxClockSave)
    \/ \E w \in Workers :
          \/ T_Status(w)
          \/ T_Sfra(w)
          \/ T_Frz(w)
          \/ T_Detect(w)
          \/ T_Load(w)
          \/ T_RecWrite(w)
          \/ T_SyncWrite(w)
          \/ T_P56(w)
          \/ T_AircraftList(w)

SpecSave == InitSave /\ [][NextSave]_vars

(* C32 *)
\* the fetch of this step could not store its snapshot
Unsaved == last'.op = "fetch" /\ last'.outcome = "unsaved"

\* a precompute of the tick at time ts is under way
Scheduled(ts) == \E w \in Workers : pool'[w].pc = "status" /\ pool'[w].ts = ts

\* C32: a failure to append the snapshot does not stop the pipeline: the
\* precompute of that tick is still scheduled (and then publishes as any other).
C32_UnsavedStillScheduled == [][Unsaved => Scheduled(clock')]_vars


(* C33 *)
\* the sleep of this step is a 20th one: it picks the sync offset anew
Resyncs == last'.op = "slept" /\ fetcher'.resync = 0

\* C33: at every 20th fetch the fetcher picks a new sync offset: over
\* successive periods the offset moves on through 0.5, 1.0, 1.5, 2.0 and 2.5 s
\* and does not stay at the value it had.
C33_OffsetSteps == [][Resyncs => fetcher'.offset # fetcher.offset]_vars


-----------------------------------------------------------------------------
(* The pipeline and the shutdown of the service *)

MaxClockStop == 20      \* SpecStop: no fetch after this time

\* _poll_loop runs until VatsimClient.stop() cancels its task
FetchStop ==
    /\ fetcher.pc # "stopped"
    /\ FetchSaved(ListsConc, DtSeq, MaxClockStop)

\* shutdown(): await FETCHER.stop() cancels the poll task and closes the HTTP
\* session; the _bg tasks and the executor's threads are not awaited
Shutdown ==
    /\ fetcher.pc # "stopped"
    /\ fetcher' = [fetcher EXCEPT !.pc = "stopped"]
    /\ last' = Op("shutdown")
    /\ UNCHANGED <<clock, snaps, pending, job, events, current, incidents, cache, ran, run>>
    /\ UNCHANGED <<pool, rc, store, ever, hist, rbase, got, adm, backend, reply, registry>>

NextStop ==
    \/ FetchStop
    \/ Shutdown
    \/ \E w \in Workers :
          \/ T_Status(w)
          \/ T_Sfra(w)
          \/ T_Frz(w)
          \/ T_Detect(w)
          \/ T_Load(w)
          \/ T_RecWrite(w)
          \/ T_SyncWrite(w)
          \/ T_P56(w)
          \/ T_AircraftList(w)

SpecStop == Init /\ [][NextStop]_vars

(* C34 *)
\* the shutdown handler has returned
Stopped == fetcher.pc = "stopped"

\* C34: shutdown waits for a running precompute: once the shutdown handler has
\* returned no precompute is running, and nothing is written to the Read Cache
\* or to the P-56 history.
C34_ShutdownDrains ==
    [][Stopped =>
          /\ \A w \in Workers : pool[w].pc = "idle"
          /\ UNCHANGED <<rc, events, current>>]_vars


-----------------------------------------------------------------------------
(* The track history over more ticks than a ring holds: one pilot who is in   *)
(* range, out of range or without a position, each precompute complete before *)
(* the next fetch.                                                            *)

MaxClockRing == 65      \* SpecRing: no fetch after this time
WestPos == 0 - 400      \* a position beyond the trim radius, west of the zones

ListsRing == ListsOf(Fleet[1], {None, Some(0), Some(WestPos)}, {Some(ALT_CEILING)})

NextRing ==
    \/ FetchTrack(ListsRing, DtSeq, MaxClockRing)
    \/ \E w \in Workers :
          \/ T_Status(w)
          \/ T_Sfra(w)
          \/ T_Frz(w)
          \/ T_Detect(w)
          \/ T_Load(w)
          \/ T_SyncWrite(w)
          \/ T_P56(w)
          \/ T_AircraftList(w)

SpecRing == Init /\ [][NextRing]_vars

(* C35 *)
\* the fetch of this step calls update_history_batch
BatchUpdates ==
    /\ last'.op = "fetch"
    /\ \E id \in Idents : history_updates(CachedList)[id] # None

\* the points of a ring are in the order of their timestamps
Ordered(ring) == \A i, j \in 1..Len(ring) : i < j => ring[i].ts <= ring[j].ts

\* the ring is the ring before with the point p appended, its oldest point
\* dropped if that makes more than 10
Displaced(before, after, p) ==
    /\ after # <<>> /\ after[Len(after)] = p
    /\ IF Len(before) < RING_SIZE
       THEN after = Append(before, p)
       ELSE after = Append(Tail(before), p)

-----------------------------------------------------------------------------
(* purge_events beside the pipeline: a pilot and a callsign-only aircraft go  *)
(* in and out of P-56A, 35 s apart, and selected events are purged between    *)
(* two ticks.  A text is modelled by what it spells: "f" or "i" for the       *)
(* spelling of a float or of an int, and the number spelled.                  *)

MaxClockPurge == 140    \* SpecPurge: no fetch after this time
DtPurge == {35}

PyFloat(n) == [type |-> "float", n |-> n]
PyInt(n) == [type |-> "int", n |-> n]

\* str(v) of a number: str(35.0) is "35.0" and str(35) is "35"
Str(v) == IF v.type = "float" THEN <<"f", v.n>> ELSE <<"i", v.n>>

\* str(x or "") of an optional cid
StrOrEmpty(c) == IF c = None THEN "" ELSE c[1]

\* the time of recording a request names: that of the events of the first detector call
PurgeTimes == {70}

\* items: {"cid": ..., "recorded_at": ...}, with or without either
Items ==
    {[cid |-> c, recorded_at |-> r] :
        c \in {None, Some("1001")},
        r \in {None} \cup {Some(PyFloat(t)) : t \in PurgeTimes} \cup {Some(PyInt(t)) : t \in PurgeTimes}}

\* keys, as str(k).split(":", 1) returns them: "<cid>:<recorded_at>" gives two
\* parts, a key without a colon gives one
KeyParts ==
    {<<c, Str(PyFloat(t))>> : c \in {"1001", "None", ""}, t \in PurgeTimes} \cup {<<"1001">>}

\* the arguments of a call: None, or a list
PurgeArgs == [items : {None} \cup {Some(<<i>>) : i \in Items},
              keys : {None} \cup {Some(<<k>>) : k \in KeyParts}]

\* targets of purge_events: the items without recorded_at and the keys that do
\* not split in two are skipped
targets(items, keys) ==
    {<<StrOrEmpty(items[1][i].cid), Str(items[1][i].recorded_at[1])>> :
        i \in {j \in 1..(IF items = None THEN 0 ELSE Len(items[1])) :
                  items[1][j].recorded_at # None}}
    \cup
    {<<keys[1][i][1], keys[1][i][2]>> :
        i \in {j \in 1..(IF keys = None THEN 0 ELSE Len(keys[1])) : Len(keys[1][j]) = 2}}

\* (cid_s, ra_s) of a stored event: recorded_at is the float time.time() gave
EventKey(e) == <<StrOrEmpty(e.cid), Str(PyFloat(e.recorded_at))>>

\* a purge that takes the events whose key is not requested (sensitivity of C36)
kept_requested(ev, T) == SelectSeq(ev, LAMBDA e : EventKey(e) \in T)

\* kept of purge_events
kept(ev, T) == SelectSeq(ev, LAMBDA e : EventKey(e) \notin T)

\* purge_events(keys, items): the events written and the counts returned
purge_events(ev, keys, items) ==
    LET T == targets(items, keys)
        before == Len(ev)
    IN  IF T = {}
        THEN [events |-> ev, ret |-> [before |-> before, after |-> before, purged |-> 0]]
        ELSE [events |-> kept(ev, T),
              ret |-> [before |-> before, after |-> Len(kept(ev, T)),
                       purged |-> Max(0, before - Len(kept(ev, T)))]]

\* a call of purge_events between two ticks
PurgeEvents ==
    \E a \in PurgeArgs :
        /\ job.pc = "idle" /\ pending = <<>>
        /\ events # <<>>
        /\ events' = purge_events(events, a.keys, a.items).events
        /\ reply' = Some([args |-> a, ret |-> purge_events(events, a.keys, a.items).ret])
        /\ last' = Op("purge")
        /\ UNCHANGED <<clock, snaps, pending, job, current, incidents, cache, ran, run>>
        /\ UNCHANGED <<pool, rc, store, ever, hist, rbase, got, adm, fetcher, backend, registry>>

ListsPurge ==
    ListsOf(Fleet[1], {Some(0), Some(2)}, {Some(ALT_CEILING)})
    \cup {<<o1, o2>> : o1 \in ObsOf(Fleet[1], {Some(0), Some(2)}, {Some(ALT_CEILING)}),
                       o2 \in ObsOf(Fleet[2], {Some(2)}, {Some(ALT_CEILING)})}

FetchPurge == job.pc = "idle" /\ Fetch(ListsPurge, DtPurge, MaxClockPurge, 1)

NextPurge ==
    \/ FetchPurge
    \/ PrecomputeStart
    \/ Record
    \/ Sync
    \/ PurgeEvents

SpecPurge == Init /\ [][NextPurge]_vars


(* C36 *)
\* str(x) of an optional cid: str(None) is "None"
StrOf(c) == IF c = None THEN "None" ELSE c[1]

\* the lists of a purge request, empty when the argument is not given
ItemsOf(a) == IF a.items = None THEN {} ELSE SeqToSet(a.items[1])
KeysOf(a) == IF a.keys = None THEN {} ELSE SeqToSet(a.keys[1])

\* the event is requested by a, its cid spelled by cidText in events and items
RequestedBy(e, a, cidText(_)) ==
    \/ \E it \in ItemsOf(a) :
          /\ it.recorded_at # None
          /\ cidText(it.cid) = cidText(e.cid)
          /\ Str(it.recorded_at[1]) = Str(PyFloat(e.recorded_at))
    \/ \E k \in KeysOf(a) :
          /\ Len(k) = 2
          /\ k[1] = cidText(e.cid)
          /\ k[2] = Str(PyFloat(e.recorded_at))

\* the request names a target at all
HasTarget(a) ==
    \/ \E it \in ItemsOf(a) : it.recorded_at # None
    \/ \E k \in KeysOf(a) : Len(k) = 2

\* the purge of this step, for the spelling cidText of a cid: the requested
\* events are gone, the others are kept in order, current_inside is as before
\* and the counts agree
PurgesExactly(cidText(_)) ==
    LET a == reply'[1].args
        ret == reply'[1].ret
    IN  /\ events' = SelectSeq(events, LAMBDA e : ~RequestedBy(e, a, cidText))
        /\ current' = current
        /\ ret.before = Len(events) /\ ret.after = Len(events')
        /\ ret.purged = ret.before - ret.after
        /\ ~HasTarget(a) => events' = events /\ ret.purged = 0

RecordsAfterPurge ==
    /\ IsRecord
    /\ LET e == Head(job.queue)
       IN  /\ e.cid # None
           /\ current[e.identifier] # None /\ current[e.identifier][1].inside
           /\ \A i \in 1..Len(events) : events[i].identifier # e.identifier

\* C37: an id whose events have all been purged while it was marked inside is
\* not left suppressed: its next entry is recorded as a new event.
C37_PurgedIdRecordedAgain == [][RecordsAfterPurge => last'.outcome = "created"]_vars

(* C38 *)
\* the events of id, in the order of the file
EventsOfId(ev, id) == SelectSeq(ev, LAMBDA e : e.identifier = id)

\* the exit of id has been confirmed and the snapshot has the aircraft outside
ConfirmedAndOutside(id, ac) ==
    /\ current[id] # None
    /\ ~current[id][1].p56_buster
    /\ PosIn(ac, id) # None
    /\ OutsideAll(PosIn(ac, id)[1])

\* C38: once the exit of an id is confirmed (p56_buster = false), a sync in which
\* the aircraft is still outside changes neither the events of the id, their
\* intrusion_positions included, nor current_inside[id].
C38_ConfirmedExitIsFinal ==
    [][\A id \in Idents :
          IsSync /\ ConfirmedAndOutside(id, job.latest_ac)
              => /\ current'[id] = current[id]
                 /\ EventsOfId(events', id) = EventsOfId(events, id)]_vars

\* a sync has just run on a snapshot taken after the exit was confirmed, with the
\* aircraft outside in it
C38_Reached ==
    /\ last.op = "sync"
    /\ snaps # <<>>
    /\ ran = snaps[1].fetched_at
    /\ \E id \in Idents :
          /\ ConfirmedAndOutside(id, snaps[1].ac)
          /\ \E i \in 1..Len(events) :
                /\ events[i].identifier = id
                /\ events[i].exit_confirmed_at # NoTs
                /\ events[i].exit_confirmed_at < ran

-----------------------------------------------------------------------------
(* geo.loader: the polygon files of the geo directory are read once into the *)
(* registry; a lookup matches a keyword against the lowered file stems.      *)

MaxFeatures == 2        \* features of one FeatureCollection

\* a geometry of a file: shape() raises on a malformed one; a polygon is valid or
\* not, and buffer0 is what buffer(0) does with it
Geoms ==
    {[kind |-> "malformed", is_valid |-> FALSE, buffer0 |-> "raises"],
     [kind |-> "Polygon", is_valid |-> TRUE, buffer0 |-> "valid"]}
    \cup {[kind |-> "Polygon", is_valid |-> FALSE, buffer0 |-> b] :
            b \in {"raises", "invalid", "valid"}}

\* f.get("geometry"): None when the feature has none
FeatureGeoms == {None} \cup {Some(g) : g \in Geoms}

FeatureLists ==
    UNION {[1..n -> FeatureGeoms] : n \in 0..MaxFeatures}

\* what json.loads(path.read_text()) gives, "unreadable" when it raises
GeoFiles ==
    {[type |-> "unreadable", features |-> <<>>]}
    \cup {[type |-> "FeatureCollection", features |-> fs] : fs \in FeatureLists}
    \cup {[type |-> t, features |-> <<g>>] :
            t \in {"Feature", "Polygon"}, g \in FeatureGeoms \ {None}}

\* the files of the directory, by stem
FileStems == {<<"P", "5", "6">>, <<"s", "f", "r", "a">>}

\* str.lower of one character
LowerChar(c) == IF c = "P" THEN "p" ELSE c

\* p.stem.lower()
lower(stem) == [i \in 1..Len(stem) |-> LowerChar(stem[i])]

\* shape(geom), for a geometry it does not raise on; repair tells what the loader
\* has done with the shape: "none", "done" or "failed"
shape(g) == [is_valid |-> g.is_valid, buffer0 |-> g.buffer0, repair |-> "none"]

\* shp.buffer(0), when it returns
buffer0(shp) == [is_valid |-> shp.buffer0 = "valid", buffer0 |-> "valid", repair |-> "done"]

\* the shape a feature of a FeatureCollection adds to shapes_out
LoadedFeature(g) ==
    LET shp == shape(g)
    IN  IF shp.is_valid THEN shp
        ELSE IF shp.buffer0 # "raises" /\ buffer0(shp).is_valid THEN buffer0(shp)
        ELSE [shp EXCEPT !.repair = "failed"]

RECURSIVE LoadFeatures(_, _)
LoadFeatures(features, i) ==
    IF i > Len(features) THEN <<>>
    ELSE LET geom == features[i]
             rest == LoadFeatures(features, i + 1)
         IN  IF geom = None \/ geom[1].kind = "malformed" THEN rest
             ELSE <<LoadedFeature(geom[1])>> \o rest

\* _load_geojson(path): the shapes of one file
_load_geojson(raw) ==
    IF raw.type = "unreadable" THEN <<>>
    ELSE IF raw.type = "FeatureCollection" THEN LoadFeatures(raw.features, 1)
    ELSE IF raw.features[1][1].kind = "malformed" THEN <<>>
    ELSE <<shape(raw.features[1][1])>>

\* load_all_geojson(): the first call fills the cache
load_all_geojson ==
    /\ registry = None
    /\ \E dir \in [FileStems -> GeoFiles] :
          registry' = Some([name \in {lower(s) : s \in FileStems} |->
                              _load_geojson(dir[CHOOSE s \in FileStems : lower(s) = name])])
    /\ last' = Op("load_all_geojson")
    /\ UNCHANGED <<clock, snaps, pending, job, events, current, cache, incidents, ran, run>>
    /\ UNCHANGED <<pool, rc, store, ever, hist, rbase, got, adm, fetcher, backend, reply>>

\* k in name
InName(k, name) ==
    \E i \in 1..(Len(name) - Len(k) + 1) : SubSeq(name, i, i + Len(k) - 1) = k

\* the order in which the dict gives its keys
GeoOrder == <<lower(<<"P", "5", "6">>), <<"s", "f", "r", "a">>>>

RECURSIVE Matched(_, _, _)
Matched(allg, k, i) ==
    IF i > Len(GeoOrder) THEN <<>>
    ELSE (IF InName(k, GeoOrder[i]) THEN allg[GeoOrder[i]] ELSE <<>>)
         \o Matched(allg, k, i + 1)

\* find_geo_by_keyword(keyword), on the loaded registry
find_geo_by_keyword(allg, keyword) ==
    LET matched == Matched(allg, lower(keyword), 1)
    IN  IF matched = <<>> THEN None ELSE Some(matched)

NextGeo == load_all_geojson

SpecGeo == Init /\ [][NextGeo]_vars

(* C39 *)
Keywords == {<<"p", "5", "6">>, <<"s", "f", "r", "a">>, <<"f", "r">>}

\* the shape is invalid and its repair by buffer(0) has failed
RepairFails(shp) == ~shp.is_valid /\ shp.repair = "failed"

\* C39: an invalid geometry whose repair by a zero-width buffer fails (it raises,
\* or gives a shape that is still invalid) is not in the registry: no lookup
\* returns it.
C39_UnrepairableDropped ==
    registry # None =>
        \A k \in Keywords :
            LET m == find_geo_by_keyword(registry[1], k)
            IN  m # None => \A i \in 1..Len(m[1]) : ~RepairFails(m[1][i])

====
